---- MODULE Spec2Model ----
(***************************************************************************)
(* Model of the Babylon training worker                                    *)
(*   python/scripts/run_training_worker.py  (trigger_training,             *)
(*       process_batch, poll_for_batches)                                   *)
(*   python/src/training/babylon_trainer.py (BabylonTrainer.train_window   *)
(*       and the helpers it calls)                                          *)
(* and of the training pipeline                                            *)
(*   python/src/data_bridge/reader.py     (PostgresTrajectoryReader)       *)
(*   python/src/data_bridge/converter.py  (BabylonToARTConverter,          *)
(*       calculate_dropout_rate)                                            *)
(*   python/src/training/trainer.py       (ContinuousMMOTrainer)           *)
(*   python/scripts/train.py              (train)                          *)
(* and of the example agent                                                *)
(*   examples/babylon-langgraph-agent/agent.py (add_to_memory, set_client  *)
(*       and the tools)                                                     *)
(*   examples/babylon-langgraph-agent/babylon_a2a_client.py                *)
(*       (BabylonA2AClient._send_message)                                   *)
(*                                                                         *)
(* The worker is one asyncio process.  Coroutines interleave only at their *)
(* awaits, so every action below is one await (a database statement or a   *)
(* call of the training backend) together with the synchronous code that   *)
(* follows it up to the next await.                                         *)
(***************************************************************************)
EXTENDS Integers, Sequences, FiniteSets, TLC

\* ---------------------------------------------------------------- bounds
NumBatches == 2        \* rows of training_batches in the worker specification
MaxTriggers == 1       \* POST /train requests received
MaxDbFaults == 1       \* database statements that raise
MaxAgents == 2         \* agents with trajectories in one window
PollBatches == 6       \* rows of training_batches in the poll-only specification
MaxHoursAgo == 2       \* largest hours_ago a window id is asked for
MaxRows == 2           \* stored trajectories in the reader specification
MaxTotal == 3          \* largest trajectory count given to calculate_dropout_rate
MaxGroup == 3          \* trajectories given to convert_window_group
MaxWindowAgents == 2   \* agents of one window in the stores of the training script
MaxCalls == 22         \* add_to_memory calls
MaxTrades == 2         \* add_to_memory calls that record a trade

\* ------------------------------------------------------ program constants
PollLimit == 5         \* LIMIT 5 of the pending-batch query
MinAgents == 2         \* BabylonTrainer(min_agents=2), the worker's default
MinTrajSteps == 2      \* len(steps) < 2 is skipped by create_art_trajectories
MaxPerWindow == 8      \* ContinuousMMOTrainer(max_per_window=8) of the training script
LookbackHours == 168   \* --lookback-hours, by default
MemoryLimit == 20      \* len(action_memory) > 20 drops the oldest entry
MaxAttempts == 30      \* max_attempts = 30 of _send_message

VARIABLES
  batchIds,      \* "batchId" of the rows of training_batches
  createdAt,     \* training_batches."createdAt"
  modelVersion,  \* training_batches."modelVersion" ("" is NULL)
  status,        \* training_batches.status
  error,         \* training_batches.error ("" is NULL)
  completedAt,   \* training_batches."completedAt" (0 is NULL)
  models,        \* rows of trained_models
  now,           \* the database clock read by NOW()
  model,         \* trainer.model and its registration with the backend
  pc,            \* position of each process_batch invocation
  tbatch,        \* its batch_id argument
  exc,           \* the exception it is propagating
  tdata,         \* what train_window computed from the collected window
  response,      \* the HTTP response of each POST /train
  pollpc,        \* position of poll_for_batches
  selected,      \* the batches fetched by the current poll cycle
  idx,           \* index of the batch the for loop is at
  deployTarget,  \* modelId fetched by the auto-deploy query
  dbFaults,      \* database statements that have raised so far
  trainOk,       \* history: batches for which a model.train call has returned
  entry,         \* history: the batch's status when process_batch was called
  store,         \* the trajectories and market_outcomes tables the reader queries
  pool,          \* PostgresTrajectoryReader.pool
  dropout_rate,  \* BabylonToARTConverter.dropout_rate
  args,          \* the arguments of the call under way (of the script: its options)
  ret,           \* what the last call returned or raised
  tpc,           \* position of the pipeline's caller
  window_ids,    \* prepare_training_batch: the windows it iterates
  widx,          \* prepare_training_batch: windows processed so far
  groups,        \* prepare_training_batch: the scored groups appended so far
  failed_windows, \* prepare_training_batch: the windows whose processing raised
  scored,        \* history: how each prepare_and_score_window call of the batch ended
  action_memory, \* agent.action_memory
  added,         \* history: every entry add_to_memory was called with, in call order
  _client,       \* agent._client, the module's current client
  apc,           \* position of each agent of the process
  tool_calls,    \* history: the client each agent's tool calls went to
  send,          \* BabylonA2AClient._send_message: its position and its outcome
  attempt,       \* the polls of tasks/get it has made
  task_response, \* what the last poll reported
  held,          \* the pool connection each coroutine of the worker holds
  hpc            \* position of the GET /health handler, or its last answer

batchVars == <<window_ids, widx, groups, failed_windows, scored>>

\* The pipeline: the worker neither imports nor calls it
pipelineVars == <<store, pool, dropout_rate, args, ret, tpc, batchVars>>

\* The example agent: a program of its own
memVars == <<action_memory, added>>
toolVars == <<_client, apc, tool_calls>>
a2aVars == <<send, attempt, task_response>>
agentVars == <<memVars, toolVars, a2aVars>>

\* Connections are written only by the specification that follows every
\* query block through its acquire and its release
scopeVars == <<held, hpc>>

\* What no step of the worker writes
cfgVars == <<batchIds, createdAt, modelVersion, pipelineVars, agentVars, scopeVars>>
dbVars == <<status, error, completedAt, models, now>>
taskVars == <<pc, tbatch, exc, tdata>>
pollVars == <<pollpc, selected, idx, deployTarget>>
histVars == <<trainOk, entry>>
vars == <<cfgVars, dbVars, model, taskVars, response, pollVars, dbFaults, histVars>>

\* ------------------------------------------------------------ identities
PollTask == 0                          \* process_batch awaited by the poll loop
HttpTasks == 1..MaxTriggers            \* process_batch tasks made by POST /train
Tasks == {PollTask} \cup HttpTasks
MissingBatch == 0                      \* a batchId with no row
Versions == {"v1", "v2", ""}

\* The coroutines that acquire connections: the poll loop together with the
\* process_batch it awaits (PollTask), the tasks made by POST /train, and the
\* handler of GET /health
HealthCheck == MaxTriggers + 1
Holders == Tasks \cup {HealthCheck}
NotHeld == <<"none", "", MissingBatch>>

\* ------------------------------------------------------------ exceptions
NoExc == [type |-> "None", msg |-> ""]
DbError == [type |-> "PostgresError", msg |-> "connection lost"]
CollectError == [type |-> "PostgresError", msg |-> "query failed"]
RegisterError == [type |-> "BackendError", msg |-> "register failed"]
TrainError == [type |-> "BackendError", msg |-> "train failed"]
StepError == [type |-> "BackendError", msg |-> "get_step failed"]
MinAgentsError == [type |-> "ValueError", msg |-> "Only too few agents"]
NoTrajError == [type |-> "ValueError", msg |-> "No valid trajectories created"]

\* str(e)
Str(e) == e.msg

\* f"Training failed: {str(e)}"
TrainFailedMsg(e) == "Training failed: " \o Str(e)

\* f"babylon-agent-{model_version}"
ModelId(v) == "babylon-agent-" \o v

NoData == [count |-> 0, ntraj |-> 0, reward |-> <<0, 1>>]
NoResponse == [status |-> "none", batchId |-> MissingBatch]

\* ---------------------------------------------------------- window data
\* What the trajectories query returns for a window: the agents found, each
\* given by the number of steps of its stored trajectory (the query drops
\* rows whose stepsJson is null or '[]', so every trajectory has a step).
\* A trajectory is too short for training or just long enough.
StepCounts == {MinTrajSteps - 1, MinTrajSteps}

WindowData == UNION {[1..n -> StepCounts] : n \in 0..MaxAgents}

\* len(agents): the distinct agent ids among the rows
AgentCount(d) == Len(d)

RECURSIVE SumSeq(_)
SumSeq(s) == IF s = <<>> THEN 0 ELSE Head(s) + SumSeq(Tail(s))

\* score_locally, in hundredths: 0.5 * pnl_score + 0.3 * win_rate +
\* 0.2 * min(1.0, total_actions / 20).  The stored steps modelled here carry
\* no P&L (agentPnL defaults to 0), so pnl_score is 0.5 and win_rate is 0.5;
\* the final sort by score does not change what train_window uses (emptiness
\* and the average).
ActivityCap == 20
ScoreLocally(d) ==
  [i \in 1..Len(d) |-> 25 + 15 + (IF d[i] < ActivityCap THEN d[i] ELSE ActivityCap)]

\* avg_reward = sum(scores) / len(scores) if scores else 0.0, kept as the
\* exact quotient <<numerator, denominator>>
AvgReward(scores) ==
  IF scores = <<>> THEN <<0, 1>> ELSE <<SumSeq(scores), Len(scores)>>

\* create_art_trajectories: one ART trajectory for every stored trajectory
\* with at least two steps
CreateArtTrajectories(d) == {i \in 1..Len(d) : ~(d[i] < MinTrajSteps)}

\* ------------------------------------------------------- database access
\* A statement either runs or raises; the model lets MaxDbFaults of them raise.
DbOutcomes == IF dbFaults < MaxDbFaults THEN {"ok", "raise"} ELSE {"ok"}

CountFault(r) == dbFaults' = IF r = "raise" THEN dbFaults + 1 ELSE dbFaults

\* Mutant of Upsert: a plain INSERT, without the ON CONFLICT clause
Upsert_AlwaysInserts(rows, id, mid, v, b, reward) ==
  rows \cup {[id |-> id, modelId |-> mid, version |-> v, trainingBatch |-> b,
              status |-> "ready", avgReward |-> reward, deployedAt |-> 0]}

\* INSERT INTO trained_models ... ON CONFLICT ("modelId") DO UPDATE SET
\* version, status, "avgReward" (the row keeps its id, "trainingBatch" and
\* "deployedAt")
Upsert(rows, id, mid, v, b, reward) ==
  IF \E r \in rows : r.modelId = mid
    THEN {IF r.modelId = mid
            THEN [r EXCEPT !.version = v, !.status = "ready", !.avgReward = reward]
            ELSE r : r \in rows}
    ELSE rows \cup {[id |-> id, modelId |-> mid, version |-> v, trainingBatch |-> b,
                     status |-> "ready", avgReward |-> reward, deployedAt |-> 0]}

\* UPDATE trained_models SET status = 'deployed', "deployedAt" = NOW()
\* WHERE "modelId" = mid
MarkDeployed(rows, mid, t) ==
  {IF r.modelId = mid THEN [r EXCEPT !.status = "deployed", !.deployedAt = t] ELSE r
     : r \in rows}

\* SELECT "batchId" FROM training_batches WHERE status = 'pending'
PendingBatches == {b \in batchIds : status[b] = "pending"}

\* ORDER BY "createdAt" ASC: the batches of S as a sequence, oldest first
RECURSIVE OrderByCreatedAt(_)
OrderByCreatedAt(S) ==
  IF S = {} THEN <<>>
  ELSE LET first == CHOOSE b \in S : \A c \in S : createdAt[b] <= createdAt[c]
       IN  <<first>> \o OrderByCreatedAt(S \ {first})

\* LIMIT n
Limit(s, n) == IF Len(s) <= n THEN s ELSE SubSeq(s, 1, n)

\* Mutant of SelectPending: the query without its LIMIT
SelectPending_NoLimit == OrderByCreatedAt(PendingBatches)

\* The pending-batch query of the poll loop
SelectPending == Limit(OrderByCreatedAt(PendingBatches), PollLimit)

\* The join of the auto-deploy query: completed batches b with a ready model
\* m, m."trainingBatch" = b.id (the workflow inserts a batch with id equal to
\* its "batchId"), m."deployedAt" IS NULL
DeployCandidates ==
  {<<b, m>> \in batchIds \X models :
      /\ m.trainingBatch = b
      /\ status[b] = "completed"
      /\ m.status = "ready"
      /\ m.deployedAt = 0}

\* ORDER BY b."completedAt" DESC LIMIT 1: the rows the query can return (one
\* of the candidates completed last)
DeployQuery ==
  {c \in DeployCandidates :
      \A d \in DeployCandidates : completedAt[d[1]] <= completedAt[c[1]]}

\* ------------------------------------------------------------ initial state
\* The state when run_worker has connected the pool: the scheduler has created
\* the batches, all pending, nothing is trained, no request has arrived.
BatchIdle ==
  /\ window_ids = <<>>
  /\ widx = 0
  /\ groups = <<>>
  /\ failed_windows = <<>>
  /\ scored = <<>>

AgentIds == {"agent1", "agent2"}

\* _send_message has not been called
NotSent == [pc |-> "idle", raised |-> "None", message |-> "", value |-> "none"]

MemoryIdle ==
  /\ action_memory = <<>>
  /\ added = <<>>

ToolsIdle ==
  /\ _client = "None"
  /\ apc = [a \in AgentIds |-> "new"]
  /\ tool_calls = {}

A2AIdle ==
  /\ send = NotSent
  /\ attempt = 0
  /\ task_response = "none"

AgentIdle == MemoryIdle /\ ToolsIdle /\ A2AIdle

PipelineIdle ==
  /\ store = <<>>
  /\ pool = "none"
  /\ dropout_rate = <<0, 1>>
  /\ args = <<>>
  /\ ret = <<>>
  /\ tpc = "idle"
  /\ BatchIdle

ScopeIdle ==
  /\ held = [h \in Holders |-> NotHeld]
  /\ hpc = "idle"

TypeInitDb(ids, faults) ==
  /\ PipelineIdle
  /\ AgentIdle
  /\ ScopeIdle
  /\ batchIds = ids
  /\ status = [b \in ids |-> "pending"]
  /\ error = [b \in ids |-> ""]
  /\ completedAt = [b \in ids |-> 0]
  /\ models = {}
  /\ now = 1
  /\ model = "none"
  /\ pc = [t \in Tasks |-> "idle"]
  /\ tbatch = [t \in Tasks |-> MissingBatch]
  /\ exc = [t \in Tasks |-> NoExc]
  /\ tdata = [t \in Tasks |-> NoData]
  /\ response = [t \in HttpTasks |-> NoResponse]
  /\ pollpc = "select"
  /\ selected = <<>>
  /\ idx = 0
  /\ deployTarget = ""
  /\ dbFaults = faults
  /\ trainOk = {}
  /\ entry = [t \in Tasks |-> "none"]

\* The worker with its HTTP triggers.  Batch ids run against creation order;
\* version names are interchangeable, so batch 1 takes "v1" or none.
Init ==
  /\ TypeInitDb(1..NumBatches, 0)
  /\ createdAt = [b \in 1..NumBatches |-> NumBatches + 1 - b]
  /\ modelVersion \in {f \in [1..NumBatches -> Versions] : f[1] /= "v2"}

\* The poll loop alone, with more pending batches than one cycle takes and a
\* database that does not fail: creation order is the id order rotated, and
\* every second batch carries no model version.
VersionOf(b) == IF b % 2 = 1 THEN "v1" ELSE ""

InitPoll ==
  /\ TypeInitDb(1..PollBatches, MaxDbFaults)
  /\ createdAt = [b \in 1..PollBatches |-> ((b + 1) % PollBatches) + 1]
  /\ modelVersion = [b \in 1..PollBatches |-> VersionOf(b)]

\* The status a caller of process_batch(b) would find
StatusAtCall(b) == IF b \in batchIds THEN status[b] ELSE "missing"

\* ------------------------------------------------- process_batch, by await
\* process_batch returns: a task made by POST /train is finished; the poll
\* loop's for statement goes on to the next selected batch, or to the
\* auto-deploy query after the last one.  (The step that returns writes at
\* most the status of its own batch, and the selected batches are distinct,
\* so the next batch's status is read unprimed.)
Return(t) ==
  /\ exc' = [exc EXCEPT ![t] = NoExc]
  /\ tdata' = [tdata EXCEPT ![t] = NoData]
  /\ UNCHANGED <<selected, deployTarget>>
  /\ IF t = PollTask
       THEN IF idx < Len(selected)
              THEN /\ idx' = idx + 1
                   /\ pc' = [pc EXCEPT ![t] = "fetch"]
                   /\ tbatch' = [tbatch EXCEPT ![t] = selected[idx + 1]]
                   /\ entry' = [entry EXCEPT ![t] = StatusAtCall(selected[idx + 1])]
                   /\ UNCHANGED pollpc
              ELSE /\ pc' = [pc EXCEPT ![t] = "idle"]
                   /\ pollpc' = "deploy_check"
                   /\ entry' = [entry EXCEPT ![t] = "none"]
                   /\ UNCHANGED <<idx, tbatch>>
       ELSE /\ pc' = [pc EXCEPT ![t] = "done"]
            /\ entry' = [entry EXCEPT ![t] = "none"]
            /\ UNCHANGED <<tbatch, pollpc, idx>>

\* The invocation goes on to its next await.
Goto(t, p) ==
  /\ pc' = [pc EXCEPT ![t] = p]
  /\ UNCHANGED <<tbatch, exc, tdata, pollVars, entry>>

\* An exception leaves train_window (or the fetch) for process_batch's handler.
Raise(t, e) ==
  /\ pc' = [pc EXCEPT ![t] = "except"]
  /\ exc' = [exc EXCEPT ![t] = e]
  /\ UNCHANGED <<tbatch, tdata, pollVars, entry>>

\* train_window raises after recording the failure itself: the UPDATE to
\* failed is the next await, the raise follows it.
RaiseAfterUpdate(t, e) ==
  /\ pc' = [pc EXCEPT ![t] = "fail_update"]
  /\ exc' = [exc EXCEPT ![t] = e]
  /\ UNCHANGED <<tbatch, tdata, pollVars, entry>>

\* Mutant of PB_Fetch: the invocation backs off when another one is already
\* inside train_window for the batch
PB_Fetch_Guarded(t) ==
  /\ pc[t] = "fetch"
  /\ \E r \in DbOutcomes :
       /\ CountFault(r)
       /\ IF r = "raise" THEN Raise(t, DbError)
          ELSE IF tbatch[t] \notin batchIds THEN Return(t)
          ELSE IF status[tbatch[t]] /= "pending" THEN Return(t)
          ELSE IF \E u \in Tasks \ {t} :
                     tbatch[u] = tbatch[t] /\ pc[u] \notin {"idle", "done", "fetch"}
            THEN Return(t)
          ELSE Goto(t, "set_training")
  /\ UNCHANGED <<cfgVars, dbVars, model, response, trainOk>>

\* SELECT * FROM training_batches WHERE "batchId" = $1, and the checks on the row
PB_Fetch(t) ==
  /\ pc[t] = "fetch"
  /\ \E r \in DbOutcomes :
       /\ CountFault(r)
       /\ IF r = "raise" THEN Raise(t, DbError)
          ELSE IF tbatch[t] \notin batchIds THEN Return(t)
          ELSE IF status[tbatch[t]] /= "pending" THEN Return(t)
          ELSE Goto(t, "set_training")
  /\ UNCHANGED <<cfgVars, dbVars, model, response, trainOk>>

\* Mutant of TW_SetTraining: the UPDATE is not wrapped in try/except, so its
\* failure leaves train_window
TW_SetTraining_Raises(t) ==
  /\ pc[t] = "set_training"
  /\ \E r \in DbOutcomes :
       /\ CountFault(r)
       /\ IF r = "ok"
            THEN /\ status' = [status EXCEPT ![tbatch[t]] = "training"]
                 /\ IF model = "none"
                      THEN model' = "created" /\ Goto(t, "register")
                      ELSE UNCHANGED model /\ Goto(t, "collect")
            ELSE /\ UNCHANGED <<status, model>>
                 /\ Raise(t, DbError)
  /\ UNCHANGED <<cfgVars, error, completedAt, models, now, response, trainOk>>

\* train_window: UPDATE ... SET status = 'training'; a failure is logged.
\* Then "if not self.model": initialize_model builds self.model and awaits
\* its registration.
TW_SetTraining(t) ==
  /\ pc[t] = "set_training"
  /\ \E r \in DbOutcomes :
       /\ CountFault(r)
       /\ status' = IF r = "ok" THEN [status EXCEPT ![tbatch[t]] = "training"]
                                ELSE status
  /\ IF model = "none"
       THEN model' = "created" /\ Goto(t, "register")
       ELSE UNCHANGED model /\ Goto(t, "collect")
  /\ UNCHANGED <<cfgVars, error, completedAt, models, now, response, trainOk>>

\* initialize_model: await self.model.register(self.backend)
TW_Register(t) ==
  /\ pc[t] = "register"
  /\ \/ model' = "registered" /\ Goto(t, "collect")
     \/ UNCHANGED model /\ Raise(t, RegisterError)
  /\ UNCHANGED <<cfgVars, dbVars, response, dbFaults, trainOk>>

\* Mutant of TW_Collect: the "if not art_trajs" check is missing
TW_Collect_NoEmptyCheck(t) ==
  /\ pc[t] = "collect"
  /\ \E r \in DbOutcomes :
       /\ CountFault(r)
       /\ IF r = "raise" THEN Raise(t, CollectError)
          ELSE \E d \in WindowData :
                 IF AgentCount(d) < MinAgents THEN RaiseAfterUpdate(t, MinAgentsError)
                 ELSE /\ pc' = [pc EXCEPT ![t] = "train"]
                      /\ tdata' = [tdata EXCEPT ![t] =
                            [count |-> AgentCount(d),
                             ntraj |-> Cardinality(CreateArtTrajectories(d)),
                             reward |-> AvgReward(ScoreLocally(d))]]
                      /\ UNCHANGED <<tbatch, exc, pollVars, entry>>
  /\ UNCHANGED <<cfgVars, dbVars, model, response, trainOk>>

\* collect_window_data, the min_agents check, score_locally and
\* create_art_trajectories
TW_Collect(t) ==
  /\ pc[t] = "collect"
  /\ \E r \in DbOutcomes :
       /\ CountFault(r)
       /\ IF r = "raise" THEN Raise(t, CollectError)
          ELSE \E d \in WindowData :
                 IF AgentCount(d) < MinAgents THEN RaiseAfterUpdate(t, MinAgentsError)
                 ELSE IF CreateArtTrajectories(d) = {}
                   THEN RaiseAfterUpdate(t, NoTrajError)
                 ELSE /\ pc' = [pc EXCEPT ![t] = "train"]
                      /\ tdata' = [tdata EXCEPT ![t] =
                            [count |-> AgentCount(d),
                             ntraj |-> Cardinality(CreateArtTrajectories(d)),
                             reward |-> AvgReward(ScoreLocally(d))]]
                      /\ UNCHANGED <<tbatch, exc, pollVars, entry>>
  /\ UNCHANGED <<cfgVars, dbVars, model, response, trainOk>>

\* await self.model.train(...)
TW_Train(t) ==
  /\ pc[t] = "train"
  /\ \/ /\ trainOk' = trainOk \cup {tbatch[t]}
        /\ Goto(t, "get_step")
     \/ /\ UNCHANGED trainOk
        /\ RaiseAfterUpdate(t, TrainError)
  /\ UNCHANGED <<cfgVars, dbVars, model, response, dbFaults>>

\* The error text train_window stores before it raises e
FailureText(e) == IF e = TrainError THEN TrainFailedMsg(e) ELSE Str(e)

\* train_window: UPDATE ... SET status = 'failed', error = error_msg inside
\* try/except-pass, then the raise
TW_FailUpdate(t) ==
  /\ pc[t] = "fail_update"
  /\ \E r \in DbOutcomes :
       /\ CountFault(r)
       /\ IF r = "ok"
            THEN /\ status' = [status EXCEPT ![tbatch[t]] = "failed"]
                 /\ error' = [error EXCEPT ![tbatch[t]] = FailureText(exc[t])]
            ELSE UNCHANGED <<status, error>>
  /\ Goto(t, "except")
  /\ UNCHANGED <<cfgVars, completedAt, models, now, model, response, trainOk>>

\* step = await self.model.get_step(); then "if batch_id and model_version
\* and self.pool" decides whether the model is saved
TW_GetStep(t) ==
  /\ pc[t] = "get_step"
  /\ \/ Raise(t, StepError)
     \/ IF modelVersion[tbatch[t]] /= "" THEN Goto(t, "upsert") ELSE Return(t)
  /\ UNCHANGED <<cfgVars, dbVars, model, response, dbFaults, trainOk>>

\* Mutant of TW_Upsert: the UPDATE to completed is outside the try, so it
\* also runs when the upsert raised
TW_Upsert_CompletesAnyway(t) ==
  /\ pc[t] = "upsert"
  /\ \E r \in DbOutcomes :
       /\ CountFault(r)
       /\ models' = IF r = "ok"
                      THEN Upsert(models, now, ModelId(modelVersion[tbatch[t]]),
                                  modelVersion[tbatch[t]], tbatch[t], tdata[t].reward)
                      ELSE models
  /\ Goto(t, "set_completed")
  /\ UNCHANGED <<cfgVars, status, error, completedAt, now, model, response, trainOk>>

\* The upsert of trained_models; its failure is logged and train_window returns
TW_Upsert(t) ==
  /\ pc[t] = "upsert"
  /\ \E r \in DbOutcomes :
       /\ CountFault(r)
       /\ IF r = "ok"
            THEN /\ models' = Upsert(models, now, ModelId(modelVersion[tbatch[t]]),
                                      modelVersion[tbatch[t]], tbatch[t], tdata[t].reward)
                 /\ Goto(t, "set_completed")
            ELSE /\ UNCHANGED models
                 /\ Return(t)
  /\ UNCHANGED <<cfgVars, status, error, completedAt, now, model, response, trainOk>>

\* UPDATE ... SET status = 'completed', "completedAt" = NOW(), in the same try
TW_SetCompleted(t) ==
  /\ pc[t] = "set_completed"
  /\ \E r \in DbOutcomes :
       /\ CountFault(r)
       /\ IF r = "ok"
            THEN /\ status' = [status EXCEPT ![tbatch[t]] = "completed"]
                 /\ completedAt' = [completedAt EXCEPT ![tbatch[t]] = now]
                 /\ now' = now + 1
            ELSE UNCHANGED <<status, completedAt, now>>
  /\ Return(t)
  /\ UNCHANGED <<cfgVars, error, models, model, response, trainOk>>

\* Mutant of PB_Except: the handler stores the text train_window built
PB_Except_TrainerText(t) ==
  /\ pc[t] = "except"
  /\ \E r \in DbOutcomes :
       /\ CountFault(r)
       /\ IF r = "ok" /\ tbatch[t] \in batchIds
            THEN /\ status' = [status EXCEPT ![tbatch[t]] = "failed"]
                 /\ error' = [error EXCEPT ![tbatch[t]] = FailureText(exc[t])]
            ELSE UNCHANGED <<status, error>>
  /\ Return(t)
  /\ UNCHANGED <<cfgVars, completedAt, models, now, model, response, trainOk>>

\* Mutant of PB_Except: the handler's UPDATE is not wrapped in its own try, so
\* its failure leaves process_batch; the poll loop's handler then drops the
\* rest of the cycle
PB_Except_Escapes(t) ==
  /\ pc[t] = "except"
  /\ \E r \in DbOutcomes :
       /\ CountFault(r)
       /\ IF r = "ok"
            THEN /\ IF tbatch[t] \in batchIds
                      THEN /\ status' = [status EXCEPT ![tbatch[t]] = "failed"]
                           /\ error' = [error EXCEPT ![tbatch[t]] = Str(exc[t])]
                      ELSE UNCHANGED <<status, error>>
                 /\ Return(t)
            ELSE /\ UNCHANGED <<status, error, tbatch, idx, selected, deployTarget>>
                 /\ exc' = [exc EXCEPT ![t] = NoExc]
                 /\ tdata' = [tdata EXCEPT ![t] = NoData]
                 /\ entry' = [entry EXCEPT ![t] = "none"]
                 /\ pc' = [pc EXCEPT ![t] = IF t = PollTask THEN "idle" ELSE "done"]
                 /\ pollpc' = IF t = PollTask THEN "sleep" ELSE pollpc
  /\ UNCHANGED <<cfgVars, completedAt, models, now, model, response, trainOk>>

\* process_batch's handler: UPDATE ... SET status = 'failed', error = str(e);
\* a failure of the update is logged
PB_Except(t) ==
  /\ pc[t] = "except"
  /\ \E r \in DbOutcomes :
       /\ CountFault(r)
       /\ IF r = "ok" /\ tbatch[t] \in batchIds
            THEN /\ status' = [status EXCEPT ![tbatch[t]] = "failed"]
                 /\ error' = [error EXCEPT ![tbatch[t]] = Str(exc[t])]
            ELSE UNCHANGED <<status, error>>
  /\ Return(t)
  /\ UNCHANGED <<cfgVars, completedAt, models, now, model, response, trainOk>>

\* ------------------------------------------------------------ POST /train
\* Mutant of TriggerTraining: the handler awaits process_batch, so no response
\* exists while the batch is processed
TriggerTraining_Awaits(t, b) ==
  /\ pc[t] = "idle"
  /\ pc' = [pc EXCEPT ![t] = "fetch"]
  /\ tbatch' = [tbatch EXCEPT ![t] = b]
  /\ entry' = [entry EXCEPT ![t] = StatusAtCall(b)]
  /\ UNCHANGED <<cfgVars, dbVars, model, exc, tdata, pollVars, dbFaults, trainOk, response>>

\* trigger_training: asyncio.create_task(process_batch(batchId)) and the
\* response, with no await in between.  Any batchId may be posted.
TriggerTraining(t, b) ==
  /\ pc[t] = "idle"
  /\ pc' = [pc EXCEPT ![t] = "fetch"]
  /\ tbatch' = [tbatch EXCEPT ![t] = b]
  /\ response' = [response EXCEPT ![t] = [status |-> "started", batchId |-> b]]
  /\ entry' = [entry EXCEPT ![t] = StatusAtCall(b)]
  /\ UNCHANGED <<cfgVars, dbVars, model, exc, tdata, pollVars, dbFaults, trainOk>>

\* ------------------------------------------------------- poll_for_batches
\* The pending-batch query, then the for loop's first process_batch.  An
\* exception is logged by the loop's handler, which goes to the sleep.
Poll_Select ==
  /\ pollpc = "select"
  /\ \E r \in DbOutcomes :
       /\ CountFault(r)
       /\ IF r = "raise"
            THEN /\ pollpc' = "sleep"
                 /\ UNCHANGED <<selected, idx, pc, tbatch, entry>>
            ELSE /\ selected' = SelectPending
                 /\ IF SelectPending = <<>>
                      THEN /\ pollpc' = "deploy_check"
                           /\ UNCHANGED <<idx, pc, tbatch, entry>>
                      ELSE /\ pollpc' = "processing"
                           /\ idx' = 1
                           /\ pc' = [pc EXCEPT ![PollTask] = "fetch"]
                           /\ tbatch' = [tbatch EXCEPT ![PollTask] = SelectPending[1]]
                           /\ entry' = [entry EXCEPT ![PollTask] = "pending"]
  /\ UNCHANGED <<cfgVars, dbVars, model, exc, tdata, response, deployTarget, trainOk>>

\* Mutant of Poll_DeployCheck: the loop starts process_batch as a task
\* instead of awaiting it, so the check also runs while a batch is processed
Poll_DeployCheck_NoAwait ==
  /\ pollpc \in {"deploy_check", "processing"}
  /\ \E r \in DbOutcomes :
       /\ CountFault(r)
       /\ IF r = "raise"
            THEN pollpc' = "sleep" /\ UNCHANGED deployTarget
            ELSE IF DeployQuery = {}
              THEN pollpc' = "sleep" /\ UNCHANGED deployTarget
              ELSE \E c \in DeployQuery :
                     /\ deployTarget' = c[2].modelId
                     /\ pollpc' = "deploy"
  /\ UNCHANGED <<cfgVars, dbVars, model, taskVars, response, selected, idx, histVars>>

\* The auto-deploy query
Poll_DeployCheck ==
  /\ pollpc = "deploy_check"
  /\ \E r \in DbOutcomes :
       /\ CountFault(r)
       /\ IF r = "raise"
            THEN pollpc' = "sleep" /\ UNCHANGED deployTarget
            ELSE IF DeployQuery = {}
              THEN pollpc' = "sleep" /\ UNCHANGED deployTarget
              ELSE \E c \in DeployQuery :
                     /\ deployTarget' = c[2].modelId
                     /\ pollpc' = "deploy"
  /\ UNCHANGED <<cfgVars, dbVars, model, taskVars, response, selected, idx, histVars>>

\* UPDATE trained_models SET status = 'deployed', "deployedAt" = NOW()
Poll_Deploy ==
  /\ pollpc = "deploy"
  /\ \E r \in DbOutcomes :
       /\ CountFault(r)
       /\ IF r = "ok"
            THEN /\ models' = MarkDeployed(models, deployTarget, now)
                 /\ now' = now + 1
            ELSE UNCHANGED <<models, now>>
  /\ pollpc' = "sleep"
  /\ deployTarget' = ""
  /\ UNCHANGED <<cfgVars, status, error, completedAt, model, taskVars, response,
                 selected, idx, histVars>>

\* await asyncio.sleep(POLL_INTERVAL), then the next cycle
Poll_Sleep ==
  /\ pollpc = "sleep"
  /\ pollpc' = "select"
  /\ selected' = <<>>
  /\ idx' = 0
  /\ UNCHANGED <<cfgVars, dbVars, model, taskVars, response, deployTarget, dbFaults,
                 histVars>>

\* ------------------------------------------------------------ specification
ProcessBatch(t) ==
  \/ PB_Fetch(t)
  \/ TW_SetTraining(t)
  \/ TW_Register(t)
  \/ TW_Collect(t)
  \/ TW_Train(t)
  \/ TW_FailUpdate(t)
  \/ TW_GetStep(t)
  \/ TW_Upsert(t)
  \/ TW_SetCompleted(t)
  \/ PB_Except(t)

PollLoop == Poll_Select \/ Poll_DeployCheck \/ Poll_Deploy \/ Poll_Sleep

Next ==
  \/ \E t \in HttpTasks, b \in batchIds \cup {MissingBatch} : TriggerTraining(t, b)
  \/ \E t \in Tasks : ProcessBatch(t)
  \/ PollLoop

Spec == Init /\ [][Next]_vars

\* The worker under fair scheduling: the event loop runs every coroutine that
\* can go on, and every awaited call (database, backend) returns or raises.
SpecFair ==
  /\ Spec
  /\ \A t \in Tasks : WF_vars(ProcessBatch(t))
  /\ WF_vars(PollLoop)

NextPoll == ProcessBatch(PollTask) \/ PollLoop

SpecPoll == InitPoll /\ [][NextPoll]_vars

\* ------------------------------------------------- the scope of connections
\* "async with trainer.pool.acquire() as conn:" is three awaits: the acquire,
\* the query of the block (with the synchronous code around it) and the
\* release made by __aexit__, which also runs when the block is left by an
\* exception or a return.  The specification below runs every query block of
\* the worker and of collect_window_data through the three; the statements
\* train_window sends with pool.execute take no connection of their own here.
\*
\* Where a coroutine stands.  A connection is recorded by the position it was
\* acquired at, so it is in use while the coroutine is still there, and due
\* for release once the block's query has moved the coroutine on.
Pos(h) ==
  IF h = PollTask THEN <<pollpc, pc[h], tbatch[h]>>
  ELSE IF h = HealthCheck THEN <<hpc, "", MissingBatch>>
  ELSE <<"", pc[h], tbatch[h]>>

\* The coroutine is at the head of one of its query blocks: the row fetch and
\* the handler's UPDATE of process_batch and the query of
\* collect_window_data; the three queries of the poll loop; SELECT 1
AtBlock(h) ==
  IF h = HealthCheck THEN hpc = "check"
  ELSE \/ pc[h] \in {"fetch", "collect", "except"}
       \/ h = PollTask /\ pollpc \in {"select", "deploy_check", "deploy"}

\* conn = await pool.acquire().__aenter__()
Acquire(h) ==
  /\ AtBlock(h)
  /\ held[h] = NotHeld
  /\ held' = [held EXCEPT ![h] = Pos(h)]
  /\ UNCHANGED <<batchIds, createdAt, modelVersion, pipelineVars, agentVars, hpc, dbVars,
                 model, taskVars, response, pollVars, dbFaults, histVars>>

\* The block's query runs on the connection acquired for it
InBlock(h) == held[h] = Pos(h)

\* __aexit__: await pool.release(conn), however the block was left
Release(h) ==
  /\ held[h] /= NotHeld
  /\ ~InBlock(h)
  /\ held' = [held EXCEPT ![h] = NotHeld]
  /\ UNCHANGED <<batchIds, createdAt, modelVersion, pipelineVars, agentVars, hpc, dbVars,
                 model, taskVars, response, pollVars, dbFaults, histVars>>

\* Mutant of Outside: the connection is taken with a bare "await
\* pool.acquire()" and given back later, so the coroutine goes on with it
Outside_ReleasedLater(h) == ~InBlock(h)

\* The code after a block runs when __aexit__ has returned
Outside(h) == held[h] = NotHeld

\* GET /health arrives (the pool is set since run_worker connected it)
Health_Request ==
  /\ hpc /= "check"
  /\ hpc' = "check"
  /\ UNCHANGED <<batchIds, createdAt, modelVersion, pipelineVars, agentVars, held, dbVars,
                 model, taskVars, response, pollVars, dbFaults, histVars>>

\* await conn.fetchval("SELECT 1"), then the answer: the status report, or
\* HTTPException(503) from the handler's except
Health_Check ==
  /\ hpc = "check"
  /\ \E r \in DbOutcomes :
       /\ CountFault(r)
       /\ hpc' = IF r = "ok" THEN "healthy" ELSE "503"
  /\ UNCHANGED <<batchIds, createdAt, modelVersion, pipelineVars, agentVars, held, dbVars,
                 model, taskVars, response, pollVars, histVars>>

\* One batch, with or without a model version, and one request of each kind
InitScope ==
  /\ TypeInitDb({NumBatches}, 0)
  /\ createdAt = [b \in {NumBatches} |-> 1]
  /\ modelVersion \in [{NumBatches} -> {"v1", ""}]

NextScope ==
  \/ \E h \in Holders : Acquire(h) \/ Release(h)
  \/ \E t \in Tasks : InBlock(t) /\ (PB_Fetch(t) \/ TW_Collect(t) \/ PB_Except(t))
  \/ InBlock(PollTask) /\ (Poll_Select \/ Poll_DeployCheck \/ Poll_Deploy)
  \/ InBlock(HealthCheck) /\ Health_Check
  \/ \E t \in Tasks :
       Outside(t) /\ (\/ TW_SetTraining(t) \/ TW_Register(t) \/ TW_Train(t)
                      \/ TW_FailUpdate(t) \/ TW_GetStep(t) \/ TW_Upsert(t)
                      \/ TW_SetCompleted(t))
  \/ \E t \in HttpTasks, b \in batchIds \cup {MissingBatch} :
       Outside(t) /\ TriggerTraining(t, b)
  \/ Outside(PollTask) /\ Poll_Sleep
  \/ Outside(HealthCheck) /\ Health_Request

SpecScope == InitScope /\ [][NextScope]_vars

\* =================================================== the training pipeline
\* No step of the pipeline touches the worker's state or the example agent's.
workerVars == <<batchIds, createdAt, modelVersion, dbVars, model, taskVars, response,
                pollVars, dbFaults, histVars, agentVars, scopeVars>>

WorkerIdle ==
  /\ batchIds = {}
  /\ createdAt = <<>>
  /\ modelVersion = <<>>
  /\ status = <<>>
  /\ error = <<>>
  /\ completedAt = <<>>
  /\ models = {}
  /\ now = 1
  /\ model = "none"
  /\ pc = [t \in Tasks |-> "idle"]
  /\ tbatch = [t \in Tasks |-> MissingBatch]
  /\ exc = [t \in Tasks |-> NoExc]
  /\ tdata = [t \in Tasks |-> NoData]
  /\ response = [t \in HttpTasks |-> NoResponse]
  /\ pollpc = "select"
  /\ selected = <<>>
  /\ idx = 0
  /\ deployTarget = ""
  /\ dbFaults = 0
  /\ trainOk = {}
  /\ entry = [t \in Tasks |-> "none"]
  /\ ScopeIdle

\* ------------------------------------------------- datetime and window ids
\* A datetime by its fields (seconds and microseconds play no part in a
\* window id: replace() clears them and the format does not print them).
DateTime(y, mo, d, h, mi) == [year |-> y, month |-> mo, day |-> d, hour |-> h, minute |-> mi]

\* Days from 1970-01-01 to the civil date y-m-d (proleptic Gregorian calendar)
DaysFromCivil(y, m, d) ==
  LET yy == IF m <= 2 THEN y - 1 ELSE y
      era == yy \div 400
      yoe == yy - era * 400
      mp == IF m > 2 THEN m - 3 ELSE m + 9
      doy == (153 * mp + 2) \div 5 + d - 1
      doe == yoe * 365 + yoe \div 4 - yoe \div 100 + doy
  IN  era * 146097 + doe - 719468

\* The civil date of a day number
CivilFromDays(z0) ==
  LET z == z0 + 719468
      era == z \div 146097
      doe == z - era * 146097
      yoe == (doe - doe \div 1460 + doe \div 36524 - doe \div 146096) \div 365
      doy == doe - (365 * yoe + yoe \div 4 - yoe \div 100)
      mp == (5 * doy + 2) \div 153
      d == doy - (153 * mp + 2) \div 5 + 1
      m == IF mp < 10 THEN mp + 3 ELSE mp - 9
      y == yoe + era * 400 + (IF m <= 2 THEN 1 ELSE 0)
  IN  <<y, m, d>>

\* Minutes from the epoch to a datetime, and back
ToMinutes(dt) == (DaysFromCivil(dt.year, dt.month, dt.day) * 24 + dt.hour) * 60 + dt.minute

FromMinutes(t) ==
  LET days == t \div 1440
      rest == t % 1440
      c == CivilFromDays(days)
  IN  DateTime(c[1], c[2], c[3], rest \div 60, rest % 60)

\* dt - timedelta(hours=h)
MinusHours(dt, h) == FromMinutes(ToMinutes(dt) - 60 * h)

\* Strings are sequences of characters.
Digits == <<"0", "1", "2", "3", "4", "5", "6", "7", "8", "9">>

\* A number printed in decimal, without padding (%Y) and padded to two (%m,
\* %d, %H)
RECURSIVE Decimal(_)
Decimal(n) == IF n < 10 THEN <<Digits[n + 1]>> ELSE Decimal(n \div 10) \o <<Digits[(n % 10) + 1]>>

Pad2(n) == <<Digits[(n \div 10) + 1], Digits[(n % 10) + 1]>>

\* window.strftime("%Y-%m-%dT%H:00")
Strftime(dt) ==
  Decimal(dt.year) \o <<"-">> \o Pad2(dt.month) \o <<"-">> \o Pad2(dt.day) \o <<"T">>
    \o Pad2(dt.hour) \o <<":", "0", "0">>

\* Mutant of get_window_id: the format prints the minute
get_window_id_PrintsMinute(utcnow, hours_ago) ==
  LET window == MinusHours([utcnow EXCEPT !.minute = 0], hours_ago)
  IN  Decimal(window.year) \o <<"-">> \o Pad2(window.month) \o <<"-">> \o Pad2(window.day)
        \o <<"T">> \o Pad2(window.hour) \o <<":">> \o Pad2(utcnow.minute)

\* BabylonTrainer.get_window_id: now.replace(minute=0, second=0,
\* microsecond=0) - timedelta(hours=hours_ago), formatted
get_window_id(utcnow, hours_ago) ==
  Strftime(MinusHours([utcnow EXCEPT !.minute = 0], hours_ago))

\* The instants the clock is read at: ends of a leap day, of a year and of a
\* February without leap day, and the instant of test_window_id_format
Instants ==
  {DateTime(2024, 2, 29, 23, 59), DateTime(2024, 3, 1, 0, 0), DateTime(2024, 3, 1, 1, 30),
   DateTime(2025, 12, 31, 23, 30), DateTime(2026, 1, 1, 0, 0), DateTime(2026, 1, 1, 9, 15),
   DateTime(2025, 1, 15, 14, 30), DateTime(2023, 3, 1, 0, 59)}

\* hours_ago: any integer; a negative one names a window to come
HoursAgo == (0 - 1) .. (MaxHoursAgo + 1)

\* datetime.strptime(s, "%Y-%m-%dT%H:00") for a string of the full layout
\* (four, two, two and two digits): the naive datetime
IsDigit(c) == \E d \in 0..9 : Digits[d + 1] = c

DigitValue(c) == CHOOSE d \in 0..9 : Digits[d + 1] = c

RECURSIVE ParseInt(_)
ParseInt(cs) ==
  IF cs = <<>> THEN 0
  ELSE ParseInt(SubSeq(cs, 1, Len(cs) - 1)) * 10 + DigitValue(cs[Len(cs)])

\* whether the string has the layout (otherwise strptime raises ValueError)
StrptimeOk(s) ==
  /\ Len(s) = 16
  /\ \A i \in {1, 2, 3, 4, 6, 7, 9, 10, 12, 13} : IsDigit(s[i])
  /\ s[5] = "-" /\ s[8] = "-" /\ s[11] = "T"
  /\ SubSeq(s, 14, 16) = <<":", "0", "0">>

Strptime(s) ==
  DateTime(ParseInt(SubSeq(s, 1, 4)), ParseInt(SubSeq(s, 6, 7)),
           ParseInt(SubSeq(s, 9, 10)), ParseInt(SubSeq(s, 12, 13)), 0)

\* The window ids taken at one instant: ret maps hours_ago to the id returned
InitWindowId ==
  /\ WorkerIdle
  /\ AgentIdle
  /\ store = <<>>
  /\ pool = "none"
  /\ dropout_rate = <<0, 1>>
  /\ args \in {[utcnow |-> i] : i \in Instants}
  /\ ret = <<>>
  /\ tpc = "idle"
  /\ BatchIdle

GetWindowId(h) ==
  /\ h \notin DOMAIN ret
  /\ ret' = [x \in DOMAIN ret \cup {h} |->
               IF x = h THEN get_window_id(args.utcnow, h) ELSE ret[x]]
  /\ UNCHANGED <<workerVars, store, pool, dropout_rate, args, tpc, batchVars>>

NextWindowId == \E h \in HoursAgo : GetWindowId(h)

SpecWindowId == InitWindowId /\ [][NextWindowId]_vars

\* ------------------------------------------------------------ the store
\* A stored trajectory: its window id, its agent, its age (hours between
\* created_at and NOW()) and its steps_json, which either fails to parse into
\* steps or holds a list of steps, each given by its number of LLM calls.
\* The rows of the table are kept in created_at order, and a trajectory's id
\* is its place in that order.
Json(steps) == [valid |-> TRUE, steps |-> steps]
Malformed == [valid |-> FALSE, steps |-> <<>>]

Row(w, a, age, sj) == [window_id |-> w, agent_id |-> a, age |-> age, steps_json |-> sj]

\* Window ids are strings, compared character by character
CharCode(c) ==
  CASE c = "-" -> 45
    [] c = ":" -> 58
    [] c = "T" -> 84
    [] OTHER -> 48 + DigitValue(c)

RECURSIVE StrLess(_, _)
StrLess(a, b) ==
  IF b = <<>> THEN FALSE
  ELSE IF a = <<>> THEN TRUE
  ELSE IF Head(a) /= Head(b) THEN CharCode(Head(a)) < CharCode(Head(b))
  ELSE StrLess(Tail(a), Tail(b))

\* ORDER BY window_id DESC
RECURSIVE OrderByWindowIdDesc(_)
OrderByWindowIdDesc(S) ==
  IF S = {} THEN <<>>
  ELSE LET first == CHOOSE w \in S : \A v \in S \ {w} : StrLess(v, w)
       IN  <<first>> \o OrderByWindowIdDesc(S \ {first})

Null == <<>>

\* WHERE window_id IS NOT NULL AND created_at > NOW() - lookback hours
InLookback(st, lookback) ==
  {i \in 1..Len(st.trajectories) :
      /\ st.trajectories[i].window_id /= Null
      /\ st.trajectories[i].age < lookback}

\* COUNT(DISTINCT agent_id) of a window's rows among the rows I
DistinctAgents(st, I, w) ==
  Cardinality({st.trajectories[i].agent_id : i \in {j \in I : st.trajectories[j].window_id = w}})

\* Mutant of GetWindowIdsQuery: HAVING COUNT(*), which counts an agent's
\* trajectories one by one
GetWindowIdsQuery_CountsRows(st, min_agents, lookback) ==
  LET I == InLookback(st, lookback)
  IN  OrderByWindowIdDesc({w \in {st.trajectories[i].window_id : i \in I} :
        Cardinality({j \in I : st.trajectories[j].window_id = w}) >= min_agents})

\* The query of get_window_ids: GROUP BY window_id HAVING
\* COUNT(DISTINCT agent_id) >= min_agents ORDER BY window_id DESC
GetWindowIdsQuery(st, min_agents, lookback) ==
  LET I == InLookback(st, lookback)
  IN  OrderByWindowIdDesc({w \in {st.trajectories[i].window_id : i \in I} :
        DistinctAgents(st, I, w) >= min_agents})

\* WHERE window_id = w ORDER BY created_at: the ids of the window's rows
RECURSIVE RowsOfWindow(_, _, _)
RowsOfWindow(st, w, i) ==
  IF i > Len(st.trajectories) THEN <<>>
  ELSE (IF st.trajectories[i].window_id = w THEN <<i>> ELSE <<>>) \o RowsOfWindow(st, w, i + 1)

\* The BabylonTrajectory built from row i
Trajectory(st, i) ==
  [trajectory_id |-> i, agent_id |-> st.trajectories[i].agent_id,
   window_id |-> st.trajectories[i].window_id, steps |-> st.trajectories[i].steps_json.steps]

\* Mutant of ParseTrajectories: the filter is len(steps) > min_actions
ParseTrajectories_Strict(st, ids, min_actions) ==
  IF \E k \in 1..Len(ids) : ~st.trajectories[ids[k]].steps_json.valid
    THEN [raised |-> "ValueError", value |-> <<>>]
    ELSE [raised |-> "None",
          value |-> [k \in 1..Len(SelectSeq(ids, LAMBDA i :
                                   Len(st.trajectories[i].steps_json.steps) > min_actions)) |->
                       Trajectory(st, SelectSeq(ids, LAMBDA i :
                                   Len(st.trajectories[i].steps_json.steps) > min_actions)[k])]]

\* The loop of get_trajectories_by_window over the fetched rows: json.loads
\* and the step models raise on the first row that does not parse; a parsed
\* row is appended if len(steps) >= min_actions
ParseTrajectories(st, ids, min_actions) ==
  IF \E k \in 1..Len(ids) : ~st.trajectories[ids[k]].steps_json.valid
    THEN [raised |-> "ValueError", value |-> <<>>]
    ELSE LET kept == SelectSeq(ids, LAMBDA i :
                       Len(st.trajectories[i].steps_json.steps) >= min_actions)
         IN  [raised |-> "None", value |-> [k \in 1..Len(kept) |-> Trajectory(st, kept[k])]]

\* get_market_outcomes: None without rows; otherwise the window's hour parsed
\* from its id, and the hour after it
MarketOutcomes(st, w) ==
  IF w \notin st.market_outcomes THEN <<>>
  ELSE [window_id |-> w, window_start |-> Strptime(w),
        window_end |-> MinusHours(Strptime(w), 0 - 1)]

\* get_window_stats: None without rows; otherwise the aggregates
WindowStatistics(st, w) ==
  LET ids == RowsOfWindow(st, w, 1)
  IN  IF ids = <<>> THEN <<>>
      ELSE [window_id |-> w,
            agent_count |-> Cardinality({st.trajectories[ids[k]].agent_id : k \in 1..Len(ids)}),
            trajectory_count |-> Len(ids)]

\* ------------------------------------------------- PostgresTrajectoryReader
\* What a call left behind: the method, its arguments, the exception raised
\* ("None" when it returned), whether it issued its query, and the value
NoCall == [method |-> "none", args |-> <<>>, raised |-> "None", issued |-> FALSE, value |-> <<>>]

Called(m, a, e, q, v) == [method |-> m, args |-> a, raised |-> e, issued |-> q, value |-> v]

\* A query method: "if not self.pool: raise RuntimeError", then the query,
\* which the database may fail, then the method's own work on the rows
ReaderResult(m, a, out) ==
  IF pool = "none" THEN {Called(m, a, "RuntimeError", FALSE, <<>>)}
  ELSE {Called(m, a, "PostgresError", TRUE, <<>>), Called(m, a, out.raised, TRUE, out.value)}

Returned(v) == [raised |-> "None", value |-> v]

\* Mutant of QueryResult: get_window_ids without its check of the pool, so
\* the query is attempted (and fails inside the driver) when pool is None
QueryResult_Unguarded(m, a, out) ==
  IF pool = "none" /\ m = "get_window_ids"
    THEN {Called(m, a, "AttributeError", TRUE, <<>>)}
    ELSE ReaderResult(m, a, out)

QueryResult(m, a, out) == ReaderResult(m, a, out)

\* connect(): creates the pool unless there is one; a failure of create_pool
\* leaves pool None.  The caller goes by what connect() and close() returned.
Reader_connect ==
  /\ tpc \in {"new", "connected", "closed", "close_failed"}
  /\ \/ /\ pool' = "open"
        /\ tpc' = "connected"
        /\ ret' = Called("connect", <<>>, "None", FALSE, <<>>)
     \/ /\ pool = "none"
        /\ UNCHANGED <<pool, tpc>>
        /\ ret' = Called("connect", <<>>, "OSError", FALSE, <<>>)
  /\ UNCHANGED <<workerVars, store, dropout_rate, args, batchVars>>

\* close(): "if self.pool: await self.pool.close(); self.pool = None"; when
\* pool.close() raises, the assignment is not reached
Reader_close ==
  /\ tpc \in {"new", "connected", "closed", "close_failed"}
  /\ \/ /\ pool' = "none"
        /\ tpc' = "closed"
        /\ ret' = Called("close", <<>>, "None", FALSE, <<>>)
     \/ /\ pool = "open"
        /\ UNCHANGED pool
        /\ tpc' = "close_failed"
        /\ ret' = Called("close", <<>>, "PostgresError", FALSE, <<>>)
  /\ UNCHANGED <<workerVars, store, dropout_rate, args, batchVars>>

Reader_get_window_ids(min_agents, lookback_hours) ==
  /\ tpc \in {"new", "connected", "closed", "close_failed"}
  /\ ret' \in QueryResult("get_window_ids",
                          [min_agents |-> min_agents, lookback_hours |-> lookback_hours],
                          Returned(GetWindowIdsQuery(store, min_agents, lookback_hours)))
  /\ UNCHANGED <<workerVars, store, pool, dropout_rate, args, tpc, batchVars>>

Reader_get_trajectories_by_window(window_id, min_actions) ==
  /\ tpc \in {"new", "connected", "closed", "close_failed"}
  /\ ret' \in QueryResult("get_trajectories_by_window",
                          [window_id |-> window_id, min_actions |-> min_actions],
                          ParseTrajectories(store, RowsOfWindow(store, window_id, 1), min_actions))
  /\ UNCHANGED <<workerVars, store, pool, dropout_rate, args, tpc, batchVars>>

Reader_get_market_outcomes(window_id) ==
  /\ tpc \in {"new", "connected", "closed", "close_failed"}
  /\ ret' \in QueryResult("get_market_outcomes", [window_id |-> window_id],
                          Returned(MarketOutcomes(store, window_id)))
  /\ UNCHANGED <<workerVars, store, pool, dropout_rate, args, tpc, batchVars>>

Reader_get_window_stats(window_id) ==
  /\ tpc \in {"new", "connected", "closed", "close_failed"}
  /\ ret' \in QueryResult("get_window_stats", [window_id |-> window_id],
                          Returned(WindowStatistics(store, window_id)))
  /\ UNCHANGED <<workerVars, store, pool, dropout_rate, args, tpc, batchVars>>

\* The stores of the reader specification: up to MaxRows trajectories of two
\* agents in the windows of 09:00 and 10:00 of one day, the first of which
\* has market outcomes.  A row older than the shortest lookback differs from
\* a recent one only for get_window_ids, which does not read its steps; the
\* agents are interchangeable, so the oldest row is agent a1's.
StoredWindows == {get_window_id(DateTime(2026, 1, 1, 9, 15), h) : h \in {0, 0 - 1}}

Agents == {"a1", "a2"}

ReaderRows ==
  {Row(w, a, 0, sj) : w \in StoredWindows, a \in Agents,
                      sj \in {Json(<<>>), Json(<<0, 1>>), Malformed}}
    \cup {Row(w, "a2", 2, Json(<<0, 1>>)) : w \in StoredWindows}

Tables(rows, n) == UNION {[1..k -> rows] : k \in 0..n}

MinAgentsArgs == {1, 2, 3}
LookbackArgs == {1, 3}
MinActionsArgs == {0, 1, 2}

InitReader ==
  /\ WorkerIdle
  /\ AgentIdle
  /\ store \in {[trajectories |-> t,
                  market_outcomes |-> {get_window_id(DateTime(2026, 1, 1, 9, 15), 0)}] :
                  t \in {u \in Tables(ReaderRows, MaxRows) :
                           u /= <<>> => u[1].agent_id = "a1"}}
  /\ pool = "none"
  /\ dropout_rate = <<0, 1>>
  /\ args = <<>>
  /\ ret = NoCall
  /\ tpc = "new"
  /\ BatchIdle

NextReader ==
  \/ Reader_connect
  \/ Reader_close
  \/ \E n \in MinAgentsArgs, h \in LookbackArgs : Reader_get_window_ids(n, h)
  \/ \E w \in StoredWindows, n \in MinActionsArgs : Reader_get_trajectories_by_window(w, n)
  \/ \E w \in StoredWindows : Reader_get_market_outcomes(w)
  \/ \E w \in StoredWindows : Reader_get_window_stats(w)

SpecReader == InitReader /\ [][NextReader]_vars

\* ------------------------------------------------------------ dropout rates
\* Rates are kept exact: <<n, d>> is n / d, with d > 0 and in lowest terms.
Abs(n) == IF n < 0 THEN 0 - n ELSE n

RECURSIVE Gcd(_, _)
Gcd(a, b) == IF b = 0 THEN a ELSE Gcd(b, a % b)

\* n / d for d /= 0
Rat(n, d) ==
  LET g == Gcd(Abs(n), Abs(d))
      sgn == IF d < 0 THEN 0 - 1 ELSE 1
  IN  <<(sgn * n) \div g, Abs(d) \div g>>

RatLess(a, b) == a[1] * b[2] < b[1] * a[2]
RatLeq(a, b) == a[1] * b[2] <= b[1] * a[2]

\* min(a, b): b when it is smaller, otherwise a
Min(a, b) == IF RatLess(b, a) THEN b ELSE a

\* Mutant of calculate_dropout_rate: the cap is left out
calculate_dropout_rate_Uncapped(total_trajectories, target_trajectories, max_dropout) ==
  IF total_trajectories <= target_trajectories THEN [raised |-> "None", value |-> <<0, 1>>]
  ELSE IF total_trajectories = 0 THEN [raised |-> "ZeroDivisionError", value |-> <<0, 1>>]
  ELSE [raised |-> "None",
        value |-> Rat(total_trajectories - target_trajectories, total_trajectories)]

\* calculate_dropout_rate: 0.0 if total <= target, otherwise
\* min(max_dropout, 1.0 - target / total); the division raises for total = 0
calculate_dropout_rate(total_trajectories, target_trajectories, max_dropout) ==
  IF total_trajectories <= target_trajectories THEN [raised |-> "None", value |-> <<0, 1>>]
  ELSE IF total_trajectories = 0 THEN [raised |-> "ZeroDivisionError", value |-> <<0, 1>>]
  ELSE [raised |-> "None",
        value |-> Min(max_dropout,
                      Rat(total_trajectories - target_trajectories, total_trajectories))]

\* The values of max_dropout: the ends of [0, 0.5], the default 0.3, and 0.9,
\* which the script's --max-dropout accepts as it accepts any number
MaxDropouts == {<<0, 1>>, <<3, 10>>, <<1, 2>>, <<9, 10>>}

TrajectoryCounts == (0 - MaxTotal) .. MaxTotal

\* calculate_dropout_rate applied to every triple of arguments
InitDropout ==
  /\ WorkerIdle
  /\ AgentIdle
  /\ store = <<>>
  /\ pool = "none"
  /\ dropout_rate = <<0, 1>>
  /\ args \in [total_trajectories : TrajectoryCounts, target_trajectories : TrajectoryCounts,
               max_dropout : MaxDropouts]
  /\ ret = NoCall
  /\ tpc = "call"
  /\ BatchIdle

CalculateDropoutRate ==
  /\ tpc = "call"
  /\ tpc' = "done"
  /\ LET r == calculate_dropout_rate(args.total_trajectories, args.target_trajectories,
                                     args.max_dropout)
     IN  ret' = Called("calculate_dropout_rate", args, r.raised, FALSE, r.value)
  /\ UNCHANGED <<workerVars, store, pool, dropout_rate, args, batchVars>>

NextDropout == CalculateDropoutRate

SpecDropout == InitDropout /\ [][NextDropout]_vars

\* -------------------------------------------------- BabylonToARTConverter
\* An ART trajectory: where it came from and how many messages it holds
Art(id, n) == [trajectory_id |-> id, messages |-> n]
NoArt == Art(0, 0)

\* What convert_trajectory did: raised, returned None (dropout) or returned
\* an ART trajectory
Converted(e, dropped, a) == [raised |-> e, dropped |-> dropped, art |-> a]

\* "self.dropout_rate > 0 and random.random() < self.dropout_rate", with
\* random.random() anywhere in [0, 1)
Dropouts(rate) ==
  IF ~RatLess(<<0, 1>>, rate) THEN {FALSE}
  ELSE IF RatLeq(<<1, 1>>, rate) THEN {TRUE}
  ELSE {TRUE, FALSE}

\* The system message, then a user and an assistant message for every step
\* with an LLM call
MessageCount(t) == 1 + 2 * Len(SelectSeq(t.steps, LAMBDA calls : calls > 0))

\* Mutant of convert_trajectory: the check of the message count is left out
convert_trajectory_Unvalidated(t, rate) ==
  {IF drop THEN Converted("None", TRUE, NoArt)
   ELSE Converted("None", FALSE, Art(t.trajectory_id, MessageCount(t)))
     : drop \in Dropouts(rate)}

\* convert_trajectory: the outcomes it can have for a trajectory
convert_trajectory(t, rate) ==
  {IF drop THEN Converted("None", TRUE, NoArt)
   ELSE IF MessageCount(t) < 3 THEN Converted("ValueError", FALSE, NoArt)
   ELSE Converted("None", FALSE, Art(t.trajectory_id, MessageCount(t)))
     : drop \in Dropouts(rate)}

\* random.sample(population, k): k different places of the population in
\* any order; a ValueError for a negative k
Sample(n, k) == {f \in [1..k -> 1..n] : \A i, j \in 1..k : i /= j => f[i] /= f[j]}

\* The list the loop of convert_window_group builds from the outcomes of the
\* sampled trajectories: the ART trajectories that are not None
RECURSIVE Survivors(_)
Survivors(outs) ==
  IF outs = <<>> THEN <<>>
  ELSE (IF Head(outs).dropped THEN <<>> ELSE <<Head(outs).art>>) \o Survivors(Tail(outs))

\* Mutant of GroupOf: the check after dropout is left out
GroupOf_NoCheckAfterDropout(outs) ==
  IF \E i \in 1..Len(outs) : outs[i].raised /= "None"
    THEN [raised |-> "ValueError", value |-> <<>>]
    ELSE [raised |-> "None", value |-> Survivors(outs)]

\* The end of convert_window_group once the sample is converted: an exception
\* of convert_trajectory has left the function; fewer than 2 survivors raise
GroupOf(outs) ==
  IF \E i \in 1..Len(outs) : outs[i].raised /= "None"
    THEN [raised |-> "ValueError", value |-> <<>>]
  ELSE IF Len(Survivors(outs)) < 2 THEN [raised |-> "ValueError", value |-> <<>>]
  ELSE [raised |-> "None", value |-> Survivors(outs)]

\* The conversions of the sampled trajectories, one outcome each
RECURSIVE ConvertAll(_, _, _)
ConvertAll(trajectories, sm, rate) ==
  IF sm = <<>> THEN {<<>>}
  ELSE {<<o>> \o rest : o \in convert_trajectory(trajectories[Head(sm)], rate),
                        rest \in ConvertAll(trajectories, Tail(sm), rate)}

\* convert_window_group: the outcomes it can have.  Fewer than 2 inputs raise;
\* more than max_per_group inputs are sampled (random.sample raises for a
\* negative size); every sampled trajectory is converted.
convert_window_group(trajectories, max_per_group, rate) ==
  IF Len(trajectories) < 2 THEN {[raised |-> "ValueError", value |-> <<>>]}
  ELSE IF Len(trajectories) > max_per_group /\ max_per_group < 0
    THEN {[raised |-> "ValueError", value |-> <<>>]}
  ELSE LET samples == IF Len(trajectories) > max_per_group
                        THEN Sample(Len(trajectories), max_per_group)
                        ELSE {[i \in 1..Len(trajectories) |-> i]}
       IN  UNION {{GroupOf(outs) : outs \in ConvertAll(trajectories, sm, rate)}
                  : sm \in samples}

\* __init__: a rate outside [0.0, 0.5] is rejected
Converter_init(rate) ==
  /\ tpc = "new"
  /\ IF RatLeq(<<0, 1>>, rate) /\ RatLeq(rate, <<1, 2>>)
       THEN /\ dropout_rate' = rate
            /\ tpc' = "ready"
            /\ ret' = Called("__init__", [dropout_rate |-> rate], "None", FALSE, <<>>)
       ELSE /\ UNCHANGED dropout_rate
            /\ tpc' = "rejected"
            /\ ret' = Called("__init__", [dropout_rate |-> rate], "ValueError", FALSE, <<>>)
  /\ UNCHANGED <<workerVars, store, pool, args, batchVars>>

\* The converter keeps nothing of a call, so one call after construction
\* shows what every call does.
Converter_convert_trajectory ==
  /\ tpc = "ready"
  /\ Len(args.trajectories) = 1
  /\ tpc' = "called"
  /\ \E out \in convert_trajectory(args.trajectories[1], dropout_rate) :
       ret' = Called("convert_trajectory", [trajectory |-> args.trajectories[1]],
                     out.raised, FALSE, out)
  /\ UNCHANGED <<workerVars, store, pool, dropout_rate, args, batchVars>>

Converter_convert_window_group ==
  /\ tpc = "ready"
  /\ tpc' = "called"
  /\ \E out \in convert_window_group(args.trajectories, args.max_per_group, dropout_rate) :
       ret' = Called("convert_window_group", args, out.raised, FALSE, out.value)
  /\ UNCHANGED <<workerVars, store, pool, dropout_rate, args, batchVars>>

\* The inputs of the converter specification: rates inside and outside the
\* accepted range; trajectories without steps, with a step without LLM call,
\* and with one or two steps with an LLM call; lists of up to MaxGroup of them
ConfiguredRates == {<<0 - 1, 10>>, <<0, 1>>, <<3, 10>>, <<1, 2>>, <<9, 10>>}

StepLists == {<<>>, <<0>>, <<1>>, <<1, 1>>}

TrajectoryLists ==
  UNION {{[i \in 1..k |-> [trajectory_id |-> i, agent_id |-> "a1",
                           window_id |-> get_window_id(DateTime(2026, 1, 1, 9, 15), 0),
                           steps |-> f[i]]] : f \in [1..k -> StepLists]}
         : k \in 0..MaxGroup}

MaxPerGroups == (0 - 1) .. MaxGroup

InitConvert ==
  /\ WorkerIdle
  /\ AgentIdle
  /\ store = <<>>
  /\ pool = "none"
  /\ dropout_rate = <<0, 1>>
  /\ args \in [trajectories : TrajectoryLists, max_per_group : MaxPerGroups]
  /\ ret = NoCall
  /\ tpc = "new"
  /\ BatchIdle

NextConvert ==
  \/ \E rate \in ConfiguredRates : Converter_init(rate)
  \/ Converter_convert_trajectory
  \/ Converter_convert_window_group

SpecConvert == InitConvert /\ [][NextConvert]_vars

\* --------------------------------------------------- ContinuousMMOTrainer
\* An optional integer: max_windows: int | None
None == [some |-> FALSE, val |-> 0]
Some(n) == [some |-> TRUE, val |-> n]

Raised(e) == [raised |-> e, value |-> <<>>]

\* get_training_windows after its query returned window_ids: a ValueError
\* when there are none; "if max_windows and len(window_ids) > max_windows"
\* samples, and neither None nor 0 passes that test
SampleWindows(ids, max_windows) ==
  IF ids = <<>> THEN {Raised("ValueError")}
  ELSE IF max_windows.some /\ max_windows.val /= 0 /\ Len(ids) > max_windows.val
    THEN IF max_windows.val < 0 THEN {Raised("ValueError")}
         ELSE {Returned([k \in 1..max_windows.val |-> ids[f[k]]])
                 : f \in Sample(Len(ids), max_windows.val)}
  ELSE {Returned(ids)}

\* get_training_windows: the outcomes it can have, as a call record
get_training_windows(min_agents, lookback_hours, max_windows) ==
  LET a == [min_agents |-> min_agents, lookback_hours |-> lookback_hours,
            max_windows |-> max_windows]
  IN  IF pool = "none" THEN {Called("get_training_windows", a, "RuntimeError", FALSE, <<>>)}
      ELSE {Called("get_training_windows", a, "PostgresError", TRUE, <<>>)}
             \cup {Called("get_training_windows", a, out.raised, TRUE, out.value)
                     : out \in SampleWindows(GetWindowIdsQuery(store, min_agents, lookback_hours),
                                             max_windows)}

\* prepare_and_score_window: the outcomes it can have.  Either query may fail;
\* fewer than 2 trajectories raise; the group is converted; the judge scores
\* it or raises (swallow_exceptions=False).  The rewards the judge sets are
\* not part of the model.
prepare_and_score_window(window_id, min_actions) ==
  LET p == ParseTrajectories(store, RowsOfWindow(store, window_id, 1), min_actions)
  IN  IF pool = "none" THEN {Raised("RuntimeError")}
      ELSE {Raised("PostgresError")} \cup
           (IF p.raised /= "None" THEN {Raised(p.raised)}
            ELSE IF Len(p.value) < 2 THEN {Raised("ValueError")}
            ELSE UNION {IF g.raised /= "None" THEN {Raised(g.raised)}
                        ELSE {Raised("JudgeError"),
                              Returned([window_id |-> window_id, trajectories |-> g.value])}
                         : g \in convert_window_group(p.value, MaxPerWindow, dropout_rate)})

\* Mutant of BatchResult: the batch raises as soon as one window failed
BatchResult_FailFast(gs, failed) ==
  IF gs = <<>> \/ failed /= <<>> THEN Raised("RuntimeError") ELSE Returned(gs)

\* The end of prepare_training_batch: "if not groups: raise RuntimeError";
\* failed windows are only logged
BatchResult(gs, failed) ==
  IF gs = <<>> THEN Raised("RuntimeError") ELSE Returned(gs)

\* ---------------------------------------------------------------- train.py
\* An exception leaves the "async with" block: __aexit__ closes the reader
\* and the script ends
Train_Crash ==
  /\ pool' = "none"
  /\ tpc' = "crashed"

\* ContinuousMMOTrainer(dropout_rate=0.0, max_per_window=8) and __aenter__,
\* which connects the reader or raises
Train_Enter ==
  /\ tpc = "new"
  /\ dropout_rate' = <<0, 1>>
  /\ \/ pool' = "open" /\ tpc' = "iterate"
     \/ pool' = "none" /\ tpc' = "crashed"
  /\ UNCHANGED <<workerVars, store, args, ret, batchVars>>

\* The head of an iteration: get_training_windows(min_agents, lookback_hours,
\* None), calculate_dropout_rate on len(available) * min_agents, and the
\* assignment of a positive rate to the converter
Train_GetAvailable ==
  /\ tpc = "iterate"
  /\ \E c \in get_training_windows(args.min_agents, LookbackHours, None) :
       /\ ret' = c
       /\ IF c.raised /= "None" THEN Train_Crash /\ UNCHANGED dropout_rate
          ELSE LET r == calculate_dropout_rate(Len(c.value) * args.min_agents,
                                               args.target_trajectories, args.max_dropout)
               IN  IF r.raised /= "None" THEN Train_Crash /\ UNCHANGED dropout_rate
                   ELSE /\ dropout_rate' = IF RatLess(<<0, 1>>, r.value) THEN r.value
                                                                          ELSE dropout_rate
                        /\ tpc' = "prepare"
                        /\ UNCHANGED pool
  /\ UNCHANGED <<workerVars, store, args, batchVars>>

\* prepare_training_batch: get_training_windows(min_agents, lookback_hours,
\* max_windows), whose exception leaves prepare_training_batch, and the
\* empty lists the loop starts from
Train_GetWindows ==
  /\ tpc = "prepare"
  /\ \E c \in get_training_windows(args.min_agents, LookbackHours,
                                   Some(args.windows_per_iteration)) :
       /\ ret' = c
       /\ IF c.raised /= "None"
            THEN Train_Crash /\ UNCHANGED batchVars
            ELSE /\ window_ids' = c.value
                 /\ widx' = 0
                 /\ groups' = <<>>
                 /\ failed_windows' = <<>>
                 /\ scored' = <<>>
                 /\ tpc' = "windows"
                 /\ UNCHANGED pool
  /\ UNCHANGED <<workerVars, store, dropout_rate, args>>

\* One turn of the loop of prepare_training_batch: prepare_and_score_window
\* inside try/except; after the last window, the end of the function
Train_Window ==
  /\ tpc = "windows"
  /\ widx < Len(window_ids)
  /\ \E out \in prepare_and_score_window(window_ids[widx + 1], args.min_actions) :
       LET gs == IF out.raised = "None" THEN Append(groups, out.value) ELSE groups
           fw == IF out.raised = "None" THEN failed_windows
                 ELSE Append(failed_windows, <<window_ids[widx + 1], out.raised>>)
           res == BatchResult(gs, fw)
       IN  /\ groups' = gs
           /\ failed_windows' = fw
           /\ scored' = Append(scored, [window_id |-> window_ids[widx + 1],
                                        raised |-> out.raised, value |-> out.value])
           /\ widx' = widx + 1
           /\ IF widx + 1 < Len(window_ids)
                THEN UNCHANGED <<ret, tpc, pool>>
                ELSE /\ ret' = Called("prepare_training_batch",
                                      [min_agents |-> args.min_agents,
                                       max_windows |-> args.windows_per_iteration,
                                       min_actions |-> args.min_actions],
                                      res.raised, TRUE, res.value)
                     /\ IF res.raised /= "None" THEN Train_Crash
                        ELSE tpc' = "train" /\ UNCHANGED pool
  /\ UNCHANGED <<workerVars, store, dropout_rate, args, window_ids>>

\* get_training_summary, model.train and model.get_step: the next iteration
\* or the exception of the backend
Train_Train ==
  /\ tpc = "train"
  /\ \/ tpc' = "iterate" /\ UNCHANGED pool
     \/ Train_Crash
  /\ UNCHANGED <<workerVars, store, dropout_rate, args, ret, batchVars>>

\* range(iterations) is exhausted: the block is left and the reader closed
Train_Finish ==
  /\ tpc = "iterate"
  /\ tpc' = "finished"
  /\ pool' = "none"
  /\ UNCHANGED <<workerVars, store, dropout_rate, args, ret, batchVars>>

\* The stores of the script specification: per window, up to MaxWindowAgents
\* agents with one trajectory each, of one step with an LLM call; in the
\* second kind of store the first trajectory of each window has no LLM call.
RECURSIVE RowsOf(_, _, _)
RowsOf(ws, f, plain) ==
  IF ws = <<>> THEN <<>>
  ELSE [a \in 1..f[Head(ws)] |->
          Row(Head(ws), a, 0, IF a = 1 /\ ~plain THEN Json(<<0>>) ELSE Json(<<1>>))]
         \o RowsOf(Tail(ws), f, plain)

TrainStores ==
  {[trajectories |-> RowsOf(OrderByWindowIdDesc(StoredWindows), f, plain),
    market_outcomes |-> {get_window_id(DateTime(2026, 1, 1, 9, 15), 0)}]
     : f \in [StoredWindows -> 0..MaxWindowAgents], plain \in BOOLEAN}

\* The options of the script
TrainOptions ==
  [min_agents : {1, 2}, windows_per_iteration : {0, 1, 2}, min_actions : {1},
   target_trajectories : {1, 1000}, max_dropout : MaxDropouts]

InitTrain ==
  /\ WorkerIdle
  /\ AgentIdle
  /\ store \in TrainStores
  /\ pool = "none"
  /\ dropout_rate = <<0, 1>>
  /\ args \in TrainOptions
  /\ ret = NoCall
  /\ tpc = "new"
  /\ BatchIdle

NextTrain ==
  \/ Train_Enter
  \/ Train_GetAvailable
  \/ Train_GetWindows
  \/ Train_Window
  \/ Train_Train
  \/ Train_Finish

SpecTrain == InitTrain /\ [][NextTrain]_vars

\* ======================================================= the example agent
\* agent.py keeps its state in module globals; its functions take no lock and
\* add_to_memory has no await, so a call is one step.
\*
\* What no step of the example agent writes
restVars == <<batchIds, createdAt, modelVersion, dbVars, model, taskVars, response,
              pollVars, dbFaults, histVars, pipelineVars, scopeVars>>

\* An entry of action_memory, by its 'action' (the result and the timestamp
\* stored with it are never read by add_to_memory)
Entry(action) == [action |-> action]

\* Mutant of add_to_memory: pop() instead of pop(0), which drops the newest
add_to_memory_PopsNewest(memory, action) ==
  LET appended == Append(memory, Entry(action))
  IN  IF Len(appended) > MemoryLimit THEN SubSeq(appended, 1, Len(appended) - 1)
      ELSE appended

\* action_memory.append({...}); if len(action_memory) > 20: action_memory.pop(0)
add_to_memory(memory, action) ==
  LET appended == Append(memory, Entry(action))
  IN  IF Len(appended) > MemoryLimit THEN Tail(appended) ELSE appended

\* The actions the tools record: add_to_memory(f"BUY_{outcome}", result) of
\* buy_shares and add_to_memory("CREATE_POST", result) of create_post
MemoryActions == {"BUY_YES", "CREATE_POST"}

Trades(entries) == Len(SelectSeq(entries, LAMBDA e : e.action = "BUY_YES"))

\* One call of add_to_memory(action, result)
AddToMemory(action) ==
  /\ Len(added) < MaxCalls
  /\ action = "BUY_YES" => Trades(added) < MaxTrades
  /\ action_memory' = add_to_memory(action_memory, action)
  /\ added' = Append(added, Entry(action))
  /\ UNCHANGED <<restVars, toolVars, a2aVars>>

\* The module as imported: action_memory = []
InitMemory ==
  /\ WorkerIdle
  /\ PipelineIdle
  /\ AgentIdle

NextMemory == \E action \in MemoryActions : AddToMemory(action)

SpecMemory == InitMemory /\ [][NextMemory]_vars

\* ---------------------------------------------------- set_client and tools
\* Two agents run in one process (one import of the module).  Each builds a
\* client of its own, registers it with set_client and then uses the tools.
ClientOf(a) == IF a = "agent1" THEN "client1" ELSE "client2"

\* await _client.call(method, ...): the call goes to the client the global
\* names when the statement runs
ClientCall(a, method) == [agent |-> a, method |-> method, client |-> _client]

\* set_client(client): global _client; _client = client
set_client(a) ==
  /\ apc[a] = "new"
  /\ _client' = ClientOf(a)
  /\ apc' = [apc EXCEPT ![a] = "ready"]
  /\ UNCHANGED <<tool_calls, restVars, memVars, a2aVars>>

\* get_markets: one call
get_markets(a) ==
  /\ apc[a] = "ready"
  /\ tool_calls' = tool_calls \cup {ClientCall(a, "a2a.getMarketData")}
  /\ UNCHANGED <<_client, apc, restVars, memVars, a2aVars>>

\* get_portfolio: await _client.call('a2a.getBalance', {}) ...
get_portfolio_balance(a) ==
  /\ apc[a] = "ready"
  /\ tool_calls' = tool_calls \cup {ClientCall(a, "a2a.getBalance")}
  /\ apc' = [apc EXCEPT ![a] = "positions"]
  /\ UNCHANGED <<_client, restVars, memVars, a2aVars>>

\* ... then await _client.call('a2a.getPositions', ...), which reads the
\* global again
get_portfolio_positions(a) ==
  /\ apc[a] = "positions"
  /\ tool_calls' = tool_calls \cup {ClientCall(a, "a2a.getPositions")}
  /\ apc' = [apc EXCEPT ![a] = "ready"]
  /\ UNCHANGED <<_client, restVars, memVars, a2aVars>>

InitTools ==
  /\ WorkerIdle
  /\ PipelineIdle
  /\ AgentIdle

NextTools ==
  \E a \in AgentIds :
    \/ set_client(a)
    \/ get_markets(a)
    \/ get_portfolio_balance(a)
    \/ get_portfolio_positions(a)

SpecTools == InitTools /\ [][NextTools]_vars

\* ------------------------------------------ BabylonA2AClient._send_message
\* What a call of _send_message has come to: awaiting polls, returned a value
\* or raised (A2AError carries its message)
Polling == [pc |-> "polling", raised |-> "None", message |-> "", value |-> "none"]
SendReturned(v) == [pc |-> "returned", raised |-> "None", message |-> "", value |-> v]
SendRaised(e, m) == [pc |-> "raised", raised |-> e, message |-> m, value |-> "none"]

\* What the server answers to message/send: a JSON-RPC error, a task, or a
\* direct message; or the POST fails (raise_for_status, a timeout)
FirstResponses == {"error", "task", "message", "http_error"}

\* What a poll of tasks/get reports: the task's status.state ('unknown' when
\* it has none, 'completed' with one of the artifact layouts), a JSON-RPC
\* error, or a failed POST
PendingStates == {"working", "unknown"}
TaskResponses == PendingStates \cup {"completed", "failed", "canceled", "error", "http_error"}

\* Mutant of PollOutcome: 'canceled' is not among the states that end the loop
PollOutcome_IgnoresCanceled(reply, n) ==
  CASE reply = "http_error" -> SendRaised("HTTPStatusError", "")
    [] reply = "error" -> SendRaised("A2AError", "Unknown error")
    [] reply = "completed" -> SendReturned("result")
    [] reply = "failed" -> SendRaised("A2AError", "Task " \o reply)
    [] OTHER -> IF n = MaxAttempts THEN SendRaised("A2AError", "Task timeout") ELSE Polling

\* One iteration of "for attempt in range(max_attempts)" after its poll, n
\* being the number of polls made: the error check, the state check, and
\* after the last iteration the raise of 'Task timeout'
PollOutcome(reply, n) ==
  CASE reply = "http_error" -> SendRaised("HTTPStatusError", "")
    [] reply = "error" -> SendRaised("A2AError", "Unknown error")
    [] reply = "completed" -> SendReturned("result")
    [] reply \in {"failed", "canceled"} -> SendRaised("A2AError", "Task " \o reply)
    [] OTHER -> IF n = MaxAttempts THEN SendRaised("A2AError", "Task timeout") ELSE Polling

\* The POST of message/send and the handling of its response
SendMessage ==
  /\ send.pc = "idle"
  /\ \E r \in FirstResponses :
       send' = CASE r = "http_error" -> SendRaised("HTTPStatusError", "")
                 [] r = "error" -> SendRaised("A2AError", "Unknown error")
                 [] r = "task" -> Polling
                 [] OTHER -> SendReturned("message")
  /\ UNCHANGED <<attempt, task_response, restVars, memVars, toolVars>>

\* await asyncio.sleep(0.5), the POST of tasks/get and the rest of the iteration
PollTask_Get ==
  /\ send.pc = "polling"
  /\ \E reply \in TaskResponses :
       /\ task_response' = reply
       /\ send' = PollOutcome(reply, attempt + 1)
  /\ attempt' = attempt + 1
  /\ UNCHANGED <<restVars, memVars, toolVars>>

InitSend ==
  /\ WorkerIdle
  /\ PipelineIdle
  /\ AgentIdle

NextSend == SendMessage \/ PollTask_Get

\* Every await of the call ends: the sleep is of 0.5 s and each POST has a
\* timeout of 30 s
SpecSend == InitSend /\ [][NextSend]_vars /\ WF_vars(NextSend)

\* ------------------------------------------------------------------ claims
FinalStatus == {"completed", "failed"}

\* The step is one of invocation t's own (every step of t moves it on).
StepOf(t) == <<pc[t], tbatch[t]>>' /= <<pc[t], tbatch[t]>>

\* C1: every status the worker writes follows pending -> training ->
\* {completed | failed}; in particular a batch never leaves completed or
\* failed.  (Stated for the terminal statuses; violated by the code.)
C1_TerminalStatusIsFinal ==
  [][\A b \in batchIds : status[b] \in FinalStatus => status'[b] = status[b]]_vars

\* C2: whenever a batch is completed, a training call for it has returned and
\* the trained_models row of its model id exists; an invocation reaches the
\* UPDATE to completed only with both done.
C2_CompletedMeansTrainedAndSaved ==
  /\ \A b \in batchIds :
        status[b] = "completed" =>
          /\ b \in trainOk
          /\ \E m \in models : m.modelId = ModelId(modelVersion[b])
  /\ \A t \in Tasks :
        pc[t] = "set_completed" =>
          /\ tbatch[t] \in trainOk
          /\ \E m \in models : m.modelId = ModelId(modelVersion[tbatch[t]])

\* C2 witness: a batch is completed although an earlier statement failed
C2_Witness == \E b \in batchIds : status[b] = "completed" /\ dbFaults > 0

\* C3: when train_window raised for a batch read as pending and the handler's
\* UPDATE is accepted, process_batch ends with status failed and error str(e).
C3_FailureRecorded ==
  [][\A t \in Tasks :
       (pc[t] = "except" /\ StepOf(t) /\ entry[t] = "pending" /\ dbFaults' = dbFaults)
         => /\ status'[tbatch[t]] = "failed"
            /\ error'[tbatch[t]] = Str(exc[t])
            /\ exc[t] /= NoExc]_vars

\* C3 witness: the training call raised, train_window stored its own text and
\* the handler replaced it by str(e)
C3_Witness ==
  \E b \in batchIds :
     /\ status[b] = "failed"
     /\ error[b] = Str(TrainError)
     /\ \A t \in Tasks : tbatch[t] = b => pc[t] \in {"idle", "done"}

\* C4: process_batch called for a batch that is missing or not pending
\* changes neither training_batches nor trained_models and never enters
\* train_window.  (Violated by the code.)
C4_NonPendingUntouched ==
  [][\A t \in Tasks :
       (entry[t] \notin {"none", "pending"} /\ StepOf(t))
         => /\ UNCHANGED <<status, error, completedAt, models>>
            /\ pc'[t] \in {"fetch", "except", "idle", "done"}]_vars

\* C5: trained_models holds at most one row per modelId, and saving an
\* existing modelId rewrites version, status and avgReward of that row.
C5_OneRowPerModelId ==
  /\ [](\A m1, m2 \in models : m1.modelId = m2.modelId => m1 = m2)
  /\ [][\A t \in Tasks :
          (pc[t] = "upsert" /\ pc'[t] = "set_completed"
             /\ \E m \in models : m.modelId = ModelId(modelVersion[tbatch[t]]))
            => /\ Cardinality(models') = Cardinality(models)
               /\ \E m \in models, n \in models' :
                     /\ m.modelId = ModelId(modelVersion[tbatch[t]])
                     /\ n = [m EXCEPT !.version = modelVersion[tbatch[t]],
                                       !.status = "ready",
                                       !.avgReward = tdata[t].reward]
                     /\ models' = (models \ {m}) \cup {n}]_vars

\* C5 witness: a model saved again after its deployment is ready again, in
\* the row that was deployed
C5_Witness == \E m \in models : m.status = "ready" /\ m.deployedAt /= 0

\* C6: nothing guards against double dispatch: every invocation that reads its
\* batch as pending enters train_window, whatever other invocations are doing
\* with the same batch.
C6_PendingReadAlwaysDispatches ==
  [][\A t \in Tasks :
       (/\ pc[t] = "fetch" /\ StepOf(t) /\ dbFaults' = dbFaults
        /\ tbatch[t] \in batchIds /\ status[tbatch[t]] = "pending")
         => pc'[t] = "set_training" /\ tbatch'[t] = tbatch[t]]_vars

\* C6 witness: two invocations have each had the training call return for
\* the same batch
C6_Witness ==
  \E t, u \in Tasks :
     /\ t /= u
     /\ tbatch[t] = tbatch[u]
     /\ pc[t] = "get_step"
     /\ pc[u] = "get_step"

\* C7: an exception in one batch stays inside process_batch: the poll loop
\* goes on with the next selected batch (or the auto-deploy query after the
\* last), a POST /train task just ends, the sleep is followed by the next
\* cycle and the loop always has a next step.
C7_FailureIsolated ==
  /\ [](ENABLED (PollLoop \/ ProcessBatch(PollTask)))
  /\ [][(pc[PollTask] = "except" /\ StepOf(PollTask))
          => IF idx < Len(selected)
               THEN /\ pollpc' = "processing"
                    /\ selected' = selected
                    /\ idx' = idx + 1
                    /\ pc'[PollTask] = "fetch"
                    /\ tbatch'[PollTask] = selected[idx + 1]
               ELSE pollpc' = "deploy_check"]_vars
  /\ [][\A t \in HttpTasks : (pc[t] = "except" /\ StepOf(t)) => pc'[t] = "done"]_vars
  /\ [][(pollpc = "sleep" /\ pollpc' /= "sleep") => pollpc' = "select"]_vars

\* C7 witness: the first batch of a cycle has failed and the training call
\* of the second is in flight
C7_Witness ==
  /\ pollpc = "processing"
  /\ idx = 2
  /\ status[selected[1]] = "failed"
  /\ pc[PollTask] = "train"

\* Strictly ascending creation time along a sequence of batches
Ascending(s) == \A i, j \in 1..Len(s) : i < j => createdAt[s[i]] < createdAt[s[j]]

\* C8: a poll cycle holds at most 5 batches, oldest first, pending when they
\* were selected, and is inside process_batch for exactly one of them, the one
\* the for loop is at; the later ones are not touched before their turn.
C8_PollCycleSequential ==
  /\ Len(selected) <= PollLimit
  /\ Ascending(selected)
  /\ pollpc = "processing" <=> pc[PollTask] /= "idle"
  /\ pollpc = "processing" =>
        /\ idx \in 1..Len(selected)
        /\ tbatch[PollTask] = selected[idx]
        /\ entry[PollTask] = "pending"
        /\ \A j \in (idx + 1)..Len(selected) : status[selected[j]] = "pending"

\* C8 witness: a cycle took 5 batches, left a pending one for the next cycle
\* and has come to its fifth
C8_Witness ==
  /\ pollpc = "processing"
  /\ Len(selected) = PollLimit
  /\ idx = PollLimit
  /\ \E b \in PendingBatches : \A i \in 1..Len(selected) : selected[i] /= b

\* C9: the auto-deploy step marks only a model that is ready, not yet
\* deployed, and whose training batch is completed.  (Violated by the code.)
C9_DeploysOnlyCompleted ==
  [][(pollpc = "deploy" /\ models' /= models)
       => \A m \in models :
            m.modelId = deployTarget
              => /\ m.status = "ready"
                 /\ m.deployedAt = 0
                 /\ status[m.trainingBatch] = "completed"]_vars

\* C10: POST /train has answered {status: started, batchId} as soon as the
\* task exists, for every batch id (missing, pending or not), and wherever the
\* task's processing stands.
C10_RespondsAtOnce ==
  \A t \in HttpTasks :
     /\ pc[t] = "idle" =>
           /\ response[t] = NoResponse
           /\ \A b \in batchIds \cup {MissingBatch} : ENABLED TriggerTraining(t, b)
     /\ pc[t] /= "idle" => response[t] = [status |-> "started", batchId |-> tbatch[t]]

\* C10 witness: the response is out and the batch's training call is in flight
C10_Witness ==
  \E t \in HttpTasks : response[t].status = "started" /\ pc[t] = "train"

C17_FiltersByMinActions ==
  ret.method = "get_trajectories_by_window" =>
    LET w == ret.args.window_id
        rows == store.trajectories
        Kept(i) == rows[i].window_id = w /\ Len(rows[i].steps_json.steps) >= ret.args.min_actions
    IN  /\ ret.raised = "None" =>
             /\ \A i \in 1..Len(rows) :
                  Kept(i) <=> \E k \in 1..Len(ret.value) : ret.value[k].trajectory_id = i
             /\ \A k \in 1..Len(ret.value) :
                  /\ ret.value[k].steps = rows[ret.value[k].trajectory_id].steps_json.steps
                  /\ k > 1 => ret.value[k - 1].trajectory_id < ret.value[k].trajectory_id
        /\ (/\ ret.issued
            /\ ret.raised /= "PostgresError"
            /\ \A i \in 1..Len(rows) : rows[i].window_id = w => rows[i].steps_json.valid)
             => ret.raised = "None"

\* C17 witness: a window holding a trajectory with steps_json '[]' and a
\* longer one; the call returned the longer one alone
C17_Witness ==
  /\ ret.method = "get_trajectories_by_window"
  /\ ret.raised = "None"
  /\ Len(ret.value) = 1
  /\ ret.args.min_actions > 0
  /\ \E i \in 1..Len(store.trajectories) :
       /\ store.trajectories[i].window_id = ret.args.window_id
       /\ store.trajectories[i].steps_json = Json(<<>>)

\* C18: a query method called before connect() has returned, or after
\* close() has, raises the not-connected error without issuing its query;
\* called after connect() returned and before the next close(), it does not
\* raise that error.
C18_NotConnectedRaises ==
  ret.method \in {"get_window_ids", "get_trajectories_by_window", "get_market_outcomes",
                  "get_window_stats"} =>
    /\ tpc \in {"new", "closed"} => ret.raised = "RuntimeError" /\ ~ret.issued
    /\ tpc = "connected" => ret.raised /= "RuntimeError" /\ ret.issued

\* C18 witness: a query refused after a connect() and a close()
C18_Witness ==
  /\ tpc = "closed"
  /\ ret.method = "get_window_ids"
  /\ ret.raised = "RuntimeError"

\* A get_window_ids call that returned
C19_Returned(r) == r.method = "get_window_ids" /\ r.raised = "None"

\* Every returned window has at least min_agents distinct agents among its
\* trajectories of the lookback period, and the windows come most recent first
C19_EnoughAgentsNewestFirst ==
  C19_Returned(ret) =>
    /\ \A k \in 1..Len(ret.value) :
         /\ Cardinality({store.trajectories[i].agent_id :
               i \in {j \in 1..Len(store.trajectories) :
                        /\ store.trajectories[j].window_id = ret.value[k]
                        /\ store.trajectories[j].age < ret.args.lookback_hours}})
              >= ret.args.min_agents
         /\ k > 1 => ToMinutes(Strptime(ret.value[k - 1])) > ToMinutes(Strptime(ret.value[k]))

\* A call with min_agents + 1 right after a call with min_agents (same
\* lookback) returns a subset of what that call returned
C19_MonotoneInMinAgents ==
  [][(/\ C19_Returned(ret)
      /\ C19_Returned(ret')
      /\ ret'.args.lookback_hours = ret.args.lookback_hours
      /\ ret'.args.min_agents = ret.args.min_agents + 1)
       => /\ {ret'.value[k] : k \in 1..Len(ret'.value)} \subseteq
               {ret.value[k] : k \in 1..Len(ret.value)}
          /\ Len(ret'.value) <= Len(ret.value)]_vars

\* C19: for a fixed store and lookback the windows get_window_ids returns for
\* min_agents = N + 1 are a subset of those for N; every returned window has
\* at least min_agents distinct agents in the lookback period, and the result
\* is ordered most recent window first.
C19_WindowIdsMonotone == []C19_EnoughAgentsNewestFirst /\ C19_MonotoneInMinAgents

\* C19 witness: two windows returned, the later one first
C19_Witness ==
  /\ C19_Returned(ret)
  /\ Len(ret.value) = 2
  /\ ret.args.min_agents = 1

\* C16: calculate_dropout_rate returns exactly 0 whenever total <= target,
\* and for total > target returns min(max_dropout, max(0, 1 - target/total)),
\* a value in [0, max_dropout], for every integer total and target and every
\* max_dropout in [0, 0.5].
C16_DropoutRateInRange ==
  (/\ ret.method = "calculate_dropout_rate"
   /\ RatLeq(<<0, 1>>, args.max_dropout)
   /\ RatLeq(args.max_dropout, <<1, 2>>)) =>
    /\ ret.raised = "None"
    /\ IF args.total_trajectories <= args.target_trajectories
         THEN ret.value = <<0, 1>>
         ELSE LET needed == Rat(args.total_trajectories - args.target_trajectories,
                                args.total_trajectories)
                  floored == IF RatLess(needed, <<0, 1>>) THEN <<0, 1>> ELSE needed
              IN  /\ ret.value = Min(args.max_dropout, floored)
                  /\ RatLeq(<<0, 1>>, ret.value)
                  /\ RatLeq(ret.value, args.max_dropout)

\* C13: convert_window_group raises when given fewer than 2 trajectories;
\* whenever it returns, the group holds between 2 and min(number of inputs,
\* max_per_group) converted trajectories (so it has raised when fewer than 2
\* survived dropout), each converted from a different input trajectory.
C13_GroupOfTwoOrMore ==
  ret.method = "convert_window_group" =>
    LET in == ret.args.trajectories
        n == Len(in)
        cap == IF n < ret.args.max_per_group THEN n ELSE ret.args.max_per_group
    IN  /\ n < 2 => ret.raised /= "None"
        /\ ret.raised = "None" =>
             /\ 2 <= Len(ret.value)
             /\ Len(ret.value) <= cap
             /\ \A k \in 1..Len(ret.value) :
                  \E i \in 1..n : /\ in[i].trajectory_id = ret.value[k].trajectory_id
                                  /\ MessageCount(in[i]) = ret.value[k].messages
             /\ \A k, l \in 1..Len(ret.value) :
                  k /= l => ret.value[k].trajectory_id /= ret.value[l].trajectory_id

\* C13 witness: three inputs, a sample of two under dropout, both converted
C13_Witness ==
  /\ ret.method = "convert_window_group"
  /\ ret.raised = "None"
  /\ Len(ret.args.trajectories) = 3
  /\ ret.args.max_per_group = 2
  /\ RatLess(<<0, 1>>, dropout_rate)
  /\ Len(ret.value) = 2
  /\ ret.value[1].trajectory_id > ret.value[2].trajectory_id

\* A trajectory none of whose steps has an LLM call
NoLlmCall(t) == \A i \in 1..Len(t.steps) : t.steps[i] = 0

\* C14 (as claimed): for every dropout_rate in [0.0, 0.5] and every
\* trajectory without LLM call, convert_trajectory raises the validation
\* error; it returns neither a training example nor a null.
C14_AlwaysRaises ==
  (ret.method = "convert_trajectory" /\ NoLlmCall(ret.args.trajectory)) =>
    ret.raised = "ValueError"

\* C14 (amended): for a trajectory without LLM call convert_trajectory never
\* returns a training example: it raises the validation error, or, when
\* dropout_rate is above 0, it may return null for dropout, which is decided
\* before any message is built; with dropout_rate 0 it always raises.
C14_NeverAnExample ==
  (ret.method = "convert_trajectory" /\ NoLlmCall(ret.args.trajectory)) =>
    /\ \/ ret.raised = "ValueError"
       \/ ret.raised = "None" /\ ret.value.dropped /\ RatLess(<<0, 1>>, dropout_rate)
    /\ dropout_rate = <<0, 1>> => ret.raised = "ValueError"

\* C14 witness: a trajectory without LLM call met dropout and came back null
C14_Witness ==
  /\ ret.method = "convert_trajectory"
  /\ NoLlmCall(ret.args.trajectory)
  /\ ret.args.trajectory.steps /= <<>>
  /\ ret.raised = "None"
  /\ ret.value.dropped

\* The prepare_and_score_window calls of the batch that returned, in order
C11_Succeeded == SelectSeq(scored, LAMBDA c : c.raised = "None")

C12_Qualifying(r) ==
  LET ids == GetWindowIdsQuery(store, r.args.min_agents, r.args.lookback_hours)
  IN  {ids[k] : k \in 1..Len(ids)}

\* C12: get_training_windows raises when no window qualifies; otherwise it
\* returns a duplicate-free subset of the qualifying windows: all of them
\* when max_windows is not specified, and at most max_windows of them for
\* every specified max_windows (including 0 and 1).  (A call the database
\* failed is left aside.)
C12_AtMostMaxWindows ==
  (ret.method = "get_training_windows" /\ ret.issued /\ ret.raised /= "PostgresError") =>
    IF C12_Qualifying(ret) = {} THEN ret.raised /= "None"
    ELSE /\ ret.raised = "None"
         /\ {ret.value[k] : k \in 1..Len(ret.value)} \subseteq C12_Qualifying(ret)
         /\ \A k, l \in 1..Len(ret.value) : k /= l => ret.value[k] /= ret.value[l]
         /\ ~ret.args.max_windows.some =>
              {ret.value[k] : k \in 1..Len(ret.value)} = C12_Qualifying(ret)
         /\ ret.args.max_windows.some => Len(ret.value) <= ret.args.max_windows.val

\* C15: the converter's dropout_rate is within [0.0, 0.5] in every reachable
\* state of the training script.
C15_DropoutRateInRange ==
  RatLeq(<<0, 1>>, dropout_rate) /\ RatLeq(dropout_rate, <<1, 2>>)

\* C21: after any sequence of add_to_memory calls action_memory holds at most
\* 20 entries, they are the entries added last, in the order added, and its
\* last entry is the entry of the last call.
C21_MemoryKeepsLastTwenty ==
  LET n == Len(added)
      k == IF n < MemoryLimit THEN n ELSE MemoryLimit
  IN  /\ Len(action_memory) <= MemoryLimit
      /\ action_memory = SubSeq(added, n - k + 1, n)
      /\ n > 0 => action_memory[Len(action_memory)] = added[n]

\* More calls than the memory holds were made, a trade has been dropped and
\* a trade is still remembered
C21_Witness ==
  /\ Len(added) > MemoryLimit + 1
  /\ added[1].action = "BUY_YES"
  /\ \E i \in 1..Len(action_memory) : action_memory[i].action = "BUY_YES"

\* The batch was marked failed with the text of its raised training call
\* (by train_window, or by process_batch's handler)
TrainingRaisedFor(b) ==
  /\ b \in batchIds
  /\ error[b] \in {TrainFailedMsg(TrainError), Str(TrainError)}

\* C22: once a batch has been marked failed because its training call
\* raised, no invocation makes the external training call for that batch.
C22_FailedNeverTrainedAgain ==
  [][\A t \in Tasks :
       (pc[t] /= "train" /\ pc'[t] = "train") => ~TrainingRaisedFor(tbatch'[t])]_vars

\* C23: when the UPDATE that sets a batch's status to training fails,
\* train_window raises nothing and goes on to the model check and the
\* collection of the window's data, with the batch's status left as it was.
C23_SetTrainingFailureIgnored ==
  [][\A t \in Tasks :
       (pc[t] = "set_training" /\ pc'[t] /= "set_training" /\ dbFaults' > dbFaults)
         => /\ pc'[t] \in {"register", "collect"}
            /\ exc'[t] = NoExc
            /\ status' = status]_vars

\* The training call has returned for a batch whose status is still pending:
\* the UPDATE to training failed and the batch was collected and trained
C23_Witness ==
  \E t \in Tasks :
    /\ pc[t] = "get_step"
    /\ tbatch[t] \in trainOk
    /\ status[tbatch[t]] = "pending"
    /\ dbFaults > 0

\* The poll loop is awaiting the training call of the batch it is processing
PollTrainingInFlight == pc[PollTask] = "train"

\* While it is, every POST /train can be answered and every task a request
\* made has a next step
C26_RequestsStillServed ==
  PollTrainingInFlight =>
    \A t \in HttpTasks :
      IF pc[t] = "idle"
        THEN \A b \in batchIds \cup {MissingBatch} : ENABLED TriggerTraining(t, b)
        ELSE pc[t] = "done" \/ ENABLED ProcessBatch(t)

\* and no step taken before the call returns moves the poll loop: it stays at
\* the same batch of the same cycle and runs no auto-deploy query
C26_PollLoopBlocked ==
  [][(PollTrainingInFlight /\ PollTrainingInFlight')
       => (UNCHANGED pollVars /\ tbatch'[PollTask] = tbatch[PollTask])]_vars

\* C26: as long as the training call of a batch picked by the poll loop has
\* not returned, the poll loop processes no other batch and runs no
\* auto-deploy check, while POST /train requests are answered and their
\* batches processed by their own tasks.
C26_HangBlocksOnlyPollLoop == []C26_RequestsStillServed /\ C26_PollLoopBlocked

\* The poll loop awaits the training call of the first batch of its cycle;
\* a request for the other batch it selected was answered and its task has
\* completed that batch
C26_Witness ==
  /\ PollTrainingInFlight
  /\ idx = 1
  /\ \E t \in HttpTasks :
       /\ pc[t] = "done"
       /\ response[t] = [status |-> "started", batchId |-> tbatch[t]]
       /\ tbatch[t] /= tbatch[PollTask]
       /\ \E i \in 2..Len(selected) : selected[i] = tbatch[t]
       /\ status[tbatch[t]] = "completed"

\* C27: every batch that an invocation has read as pending and handed to
\* train_window eventually has status completed or failed, when every
\* awaited call returns or raises (stated for the runs in which no database
\* statement raises, so that the model is always saved when a save is tried).
C27_DispatchedBatchEnds ==
  \A b \in 1..NumBatches :
    (\E t \in Tasks : pc[t] = "set_training" /\ tbatch[t] = b)
      ~> (status[b] \in FinalStatus \/ dbFaults > 0)

\* An invocation is at the training call only with the data of a window that
\* has min_agents agents or more and gave one ART trajectory or more
C28_TrainingCallHasData ==
  \A t \in Tasks :
    pc[t] = "train" => (tdata[t].count >= MinAgents /\ tdata[t].ntraj >= 1)

\* and when the collected window does not lead to the training call,
\* train_window is raising
C28_RaisesOtherwise ==
  [][\A t \in Tasks :
       (pc[t] = "collect" /\ pc'[t] \notin {"collect", "train"})
         => (pc'[t] \in {"except", "fail_update"} /\ exc'[t] /= NoExc)]_vars

C29_TrainsOnlyRegisteredModel ==
  \A t \in Tasks : pc[t] = "train" => model = "registered"

\* C25: every tool call made on behalf of an agent goes to the client that
\* agent registered with set_client.
C25_ToolCallsUseOwnClient ==
  \A c \in tool_calls : c.client = ClientOf(c.agent)

\* What holds of the polls in every state
C30_PollsBounded ==
  /\ attempt <= MaxAttempts
  /\ send.pc = "polling" => (attempt < MaxAttempts /\ task_response \in PendingStates \cup {"none"})
  /\ task_response = "completed" => send = SendReturned("result")
  /\ task_response \in {"failed", "canceled", "error"}
       => (send.pc = "raised" /\ send.raised = "A2AError" /\ send.message /= "Task timeout")
  /\ (send.raised = "A2AError" /\ send.message = "Task timeout")
       <=> (send.pc = "raised" /\ attempt = MaxAttempts /\ task_response \in PendingStates)

\* A poll is made only by a call that is waiting for its task
C30_PollsOnlyWhilePending ==
  [][attempt' /= attempt => (send.pc = "polling" /\ attempt' = attempt + 1)]_vars

\* C30: when the server answers with a task, _send_message polls tasks/get at
\* most 30 times and ends: it returns at the first poll that reports
\* completed, raises A2AError at the first poll that reports failed or
\* canceled or carries a JSON-RPC error, and raises A2AError 'Task timeout'
\* when 30 polls reported no terminal state.
C30_PollingTerminates ==
  /\ []C30_PollsBounded
  /\ C30_PollsOnlyWhilePending
  /\ <>(send.pc \in {"returned", "raised"})

\* The thirtieth poll reported a task still working
C30_Witness ==
  /\ attempt = MaxAttempts
  /\ task_response = "working"
  /\ send = SendRaised("A2AError", "Task timeout")


\* A held connection was acquired at the head of a query block
C24_HeldForBlock ==
  \A h \in Holders :
    held[h] /= NotHeld =>
      \/ held[h][2] \in {"fetch", "collect", "except"}
      \/ held[h][1] \in {"select", "deploy_check", "deploy", "check"}

\* A coroutine moves on only with no connection, or by the query of the
\* block it holds the connection for: after that query (whether it returned,
\* raised, or the function returned early) its next step is the release
C24_ReleasedWhenBlockEnds ==
  [][\A h \in Holders :
       Pos(h)' /= Pos(h) => (held[h] = NotHeld \/ InBlock(h))]_vars

\* The external training call of a batch is made, and returns, with no
\* connection held by the batch
C24_TrainingHoldsNoConnection ==
  [][\A t \in Tasks :
       (pc[t] = "train" /\ pc'[t] /= "train") =>
         (held[t] = NotHeld /\ held'[t] = NotHeld)]_vars

\* C24: every pool connection acquired by process_batch, the poll loop, the
\* health check and collect_window_data is released when its query block
\* ends, also when the query raises or the function returns early; no
\* connection is held by a batch while its external training call is in
\* flight, so that held connections are only those of running query blocks.
C24_ConnectionsScoped ==
  /\ []C24_HeldForBlock
  /\ C24_ReleasedWhenBlockEnds
  /\ C24_TrainingHoldsNoConnection

\* A query has raised, every connection is back in the pool, and a batch is
\* in its external training call
C24_Witness ==
  /\ dbFaults > 0
  /\ \A h \in Holders : held[h] = NotHeld
  /\ \E t \in Tasks : pc[t] = "train"

====
